---- MODULE Spec2Model ----
(***************************************************************************)
(* BillExtractorAI: the browser-side resilient document fetcher            *)
(* (services/geminiService.ts, urlToGenerativePart) as a state machine.    *)
(*                                                                         *)
(* A call of urlToGenerativePart runs synchronously up to its next await.  *)
(* The awaits are: strategy.fn() (line 99), res.blob() (line 105) and      *)
(* blobToBase64(blob) (line 117).  Each action below is one such segment:  *)
(* the settling of the awaited promise and all the synchronous code that   *)
(* follows it, up to the next await, the return or the throw.              *)
(*                                                                         *)
(* Strings are sequences of one-character strings, so that the regular     *)
(* expression of line 60 and the endsWith tests of lines 10-14 are         *)
(* computed character by character.                                        *)
(***************************************************************************)
EXTENDS Integers, Sequences, FiniteSets, TLC

(***************************************************************************)
(* Bounds of the model.                                                    *)
(***************************************************************************)
\* body sizes range over MinBlobSize - SizeSlack .. MinBlobSize + SizeSlack
SizeSlack == 1

(***************************************************************************)
(* Program constants.                                                      *)
(***************************************************************************)
\* line 112: if (blob.size < 100)
MinBlobSize == 100

(***************************************************************************)
(* Characters and strings.                                                 *)
(***************************************************************************)
\* String.prototype.toLowerCase on one character (the letters the URLs use)
LowerChar(c) ==
    CASE c = "P" -> "p" [] c = "N" -> "n" [] c = "G" -> "g"
      [] c = "J" -> "j" [] c = "D" -> "d" [] c = "F" -> "f"
      [] OTHER -> c

\* String.prototype.toLowerCase
ToLowerCase(s) == [n \in 1..Len(s) |-> LowerChar(s[n])]

\* String.prototype.endsWith
EndsWith(s, suffix) ==
    /\ Len(suffix) <= Len(s)
    /\ SubSeq(s, Len(s) - Len(suffix) + 1, Len(s)) = suffix

\* the position of the first "?" of s, Len(s) + 1 when there is none
FirstQuery(s) ==
    IF \E n \in 1..Len(s) : s[n] = "?"
    THEN CHOOSE n \in 1..Len(s) : s[n] = "?" /\ \A m \in 1..(n - 1) : s[m] # "?"
    ELSE Len(s) + 1

\* url.split('?')[0]
BeforeQuery(s) == SubSeq(s, 1, FirstQuery(s) - 1)

PNG  == <<"p", "n", "g">>
JPG  == <<"j", "p", "g">>
JPEG == <<"j", "p", "e", "g">>
WEBP == <<"w", "e", "b", "p">>
GIF  == <<"g", "i", "f">>
PDF  == <<"p", "d", "f">>

\* the alternatives of the regular expression of line 60
ImageExtensions == {JPEG, JPG, PNG, WEBP, GIF}

\* /\.(jpeg|jpg|png|webp|gif)($|\?)/i.test(url): somewhere in the url there is
\* a dot, one of the extensions in any case, and then the end or a "?"
isImage(url) ==
    \E p \in 1..Len(url) : \E e \in ImageExtensions :
        /\ url[p] = "."
        /\ p + Len(e) <= Len(url)
        /\ ToLowerCase(SubSeq(url, p + 1, p + Len(e))) = e
        /\ \/ p + Len(e) = Len(url)
           \/ url[p + Len(e) + 1] = "?"

\* mutant: only the empty type and application/octet-stream are generic
getMimeTypeOctetStreamOnly(url, blobType) ==
    IF blobType # "" /\ blobType # "application/octet-stream"
    THEN blobType
    ELSE LET cleanUrl == ToLowerCase(BeforeQuery(url)) IN
         IF EndsWith(cleanUrl, <<".">> \o PNG) THEN "image/png"
         ELSE IF EndsWith(cleanUrl, <<".">> \o JPG) \/ EndsWith(cleanUrl, <<".">> \o JPEG)
              THEN "image/jpeg"
         ELSE IF EndsWith(cleanUrl, <<".">> \o PDF) THEN "application/pdf"
         ELSE IF EndsWith(cleanUrl, <<".">> \o WEBP) THEN "image/webp"
         ELSE "application/pdf"

\* getMimeType(url, blobType), lines 5-16
getMimeType(url, blobType) ==
    IF blobType # "" /\ blobType # "application/octet-stream"
                     /\ blobType # "application/x-www-form-urlencoded"
    THEN blobType
    ELSE LET cleanUrl == ToLowerCase(BeforeQuery(url)) IN
         IF EndsWith(cleanUrl, <<".">> \o PNG) THEN "image/png"
         ELSE IF EndsWith(cleanUrl, <<".">> \o JPG) \/ EndsWith(cleanUrl, <<".">> \o JPEG)
              THEN "image/jpeg"
         ELSE IF EndsWith(cleanUrl, <<".">> \o PDF) THEN "application/pdf"
         ELSE IF EndsWith(cleanUrl, <<".">> \o WEBP) THEN "image/webp"
         ELSE "application/pdf"

(***************************************************************************)
(* The strategy list, lines 63-90.                                         *)
(***************************************************************************)
Strategies == <<"Direct", "WeServer", "CorsProxy.io", "AllOrigins", "ThingProxy">>

\* strategy.skip, line 72: !isImage on WeServer, undefined (falsy) elsewhere;
\* image is the value of the constant isImage of line 60
Skip(name, image) == name = "WeServer" /\ ~image

\* mutant: the catch block gives up (break) instead of letting the loop go on
NextApplicableGivesUp(i, image) == IF i = 0 THEN 1 ELSE Len(Strategies) + 1

\* mutant: the loop forgets line 95 and skips nothing
NextApplicableNoSkip(i, image) == i + 1

\* the for-of loop of lines 94-95 after the strategy at position i: the
\* position of the next strategy the loop does not skip, Len(Strategies) + 1
\* when the loop is over
NextApplicable(i, image) ==
    IF \E j \in (i + 1)..Len(Strategies) : ~Skip(Strategies[j], image)
    THEN CHOOSE j \in (i + 1)..Len(Strategies) :
            /\ ~Skip(Strategies[j], image)
            /\ \A m \in (i + 1)..(j - 1) : Skip(Strategies[m], image)
    ELSE Len(Strategies) + 1

(***************************************************************************)
(* The inputs: document URLs and what the network answers.                 *)
(***************************************************************************)
Host == <<"h", "/", "b">>

PathExtensions ==
    { <<>>, <<".">> \o PNG, <<".", "J", "P", "G">>, <<".">> \o JPEG,
      <<".">> \o WEBP, <<".">> \o GIF, <<".">> \o PDF }

\* every path extension without a query string, .png and .pdf with a query
\* string, and .pdf with a query string that names a thumbnail
Urls == { Host \o e : e \in PathExtensions }
        \cup { Host \o <<".">> \o PNG \o <<"?", "v">>,
               Host \o <<".">> \o PDF \o <<"?", "v">>,
               Host \o <<".">> \o PDF \o <<"?", "t", "=", "a", ".", "p", "n", "g">> }

\* Response.ok: a status in 200..299
Statuses == {200, 404}
Ok(status) == status >= 200 /\ status <= 299

\* blob.type: the serialized MIME type of the response, "" when there is none
HtmlTypes  == {"text/html", "text/html;charset=utf-8"}
OtherTypes ==
    {"", "application/octet-stream", "application/x-www-form-urlencoded", "image/png"}
BlobTypes  == HtmlTypes \cup OtherTypes

\* mutant: the type is compared with === instead of includes
EqualsTextHtml(type) == type = "text/html"

\* line 108: blob.type.includes('text/html'), on the blob types of the model
IncludesTextHtml(type) == type \in HtmlTypes

\* mutant: <= in the place of <
TooSmallOrEqual(size) == size <= MinBlobSize

\* line 112: blob.size < 100
TooSmall(size) == size < MinBlobSize

\* blob.size
Sizes == {50} \cup ((MinBlobSize - SizeSlack)..(MinBlobSize + SizeSlack))

\* how the promise of strategy.fn() settles (line 99)
FetchOutcomes == {[kind |-> "reject", status |-> 0, type |-> "", size |-> 0]}
                 \cup [kind : {"response"}, status : Statuses, type : {""}, size : {0}]

\* how the promise of res.blob() settles (line 105)
BlobOutcomes == {[kind |-> "bodyReject", status |-> 200, type |-> "", size |-> 0]}
                \cup [kind : {"blob"}, status : {200}, type : BlobTypes, size : Sizes]

\* how the FileReader of blobToBase64 ends (lines 44-56)
ReaderOutcomes == [kind : {"load", "readerError"}, status : {200}, type : {""}, size : {0}]

(***************************************************************************)
(* The state.                                                              *)
(***************************************************************************)
VARIABLES
    pc,        \* pc[k]: where call k of urlToGenerativePart stands
    url,       \* url[k]: the argument of call k
    image,     \* image[k]: the constant isImage of line 60
    idx,       \* idx[k]: position in Strategies of the loop's current strategy
    blob,      \* blob[k]: the Blob that res.blob() resolved to (line 105)
    errors,    \* errors[k]: the errors array of line 92
    outcome,   \* outcome[k]: what call k returned or threw
    attempts,  \* attempts[k]: the strategy.fn() calls made, oldest first
    inflight,  \* inflight[k]: the strategies whose attempt has not completed
    seen,      \* seen[k]: how the promise call k last awaited has settled
    apiKey,    \* process.env.API_KEY is set
    ext,       \* the call of extractBillData
    ui,        \* the state of the App component that called it
    runs,      \* runs[a]: activation a of the App's handlers, when they overlap
    server,    \* the Node process that serves POST /extract-bill-data
    requests,  \* requests[r]: the handling of request r
    trace      \* trace[i]: how the promises of invocation i have settled, oldest first

fetcherVars == <<pc, url, image, idx, blob, errors, outcome, attempts, inflight, seen>>
appVars == <<apiKey, ext, ui, runs>>
serverVars == <<server, requests>>
vars == <<fetcherVars, appVars, serverVars, trace>>

Calls == DOMAIN pc

NoUrl     == <<>>
NoBlob    == [type |-> "", size |-> 0, body |-> "none"]
NoOutcome == [kind |-> "none"]
NotSeen   == [kind |-> "none", status |-> 0, type |-> "", size |-> 0]

(***************************************************************************)
(* Error messages (lines 102, 109, 113, 120) and results.                  *)
(***************************************************************************)
\* fetch() rejected: e.message of the TypeError
TransportMsg == [kind |-> "Failed to fetch", n |-> 0]
\* line 102: `HTTP ${res.status}: ${res.statusText}`
HttpMsg(status) == [kind |-> "HTTP", n |-> status]
\* res.blob() rejected: e.message of the error
BodyMsg == [kind |-> "body stream", n |-> 0]
\* line 109
HtmlMsg == [kind |-> "Received HTML instead of binary data (likely an error page)", n |-> 0]
\* line 113: `Blob size too small (${blob.size} bytes)`
SmallMsg(size) == [kind |-> "Blob size too small", n |-> size]
\* blobToBase64 rejected with the reader's error event: String(e), line 120
ReaderMsg == [kind |-> "[object ProgressEvent]", n |-> 0]

\* mutant: only the message is pushed
ErrorEntryNoName(name, msg) == [name |-> "", msg |-> msg]

\* line 122: `${strategy.name}: ${msg}`
ErrorEntry(name, msg) == [name |-> name, msg |-> msg]

\* line 126: the aggregate error
AggregateError(errs) ==
    [kind |-> "error", what |-> "Failed to fetch document", tried |-> Len(Strategies),
     details |-> errs]

\* btoa of the body, as the FileReader computes it
Base64(body) == <<"base64", body>>

\* a content type whose parameter value holds a comma, as the response
\* header Content-Type: image/png; name="a,b" gives it to the blob
NamedType == "image/png;name=\"a,b\""

\* the text of a MIME type as its commas and the runs between them
Tokens(type) ==
    IF type = NamedType THEN <<"image/png;name=\"a", ",", "b\"">> ELSE <<type>>

\* reader.readAsDataURL(blob): "data:<type>;base64,<data>"
ReadAsDataURL(b) == <<"data:">> \o Tokens(b.type) \o <<";base64", ",">> \o Base64(b.body)

\* String.prototype.split: the runs of s between the separators
RECURSIVE Split(_, _)
Split(s, separator) ==
    IF \A n \in 1..Len(s) : s[n] # separator THEN <<s>>
    ELSE LET p == CHOOSE n \in 1..Len(s) :
                      s[n] = separator /\ \A m \in 1..(n - 1) : s[m] # separator
         IN <<SubSeq(s, 1, p - 1)>> \o Split(SubSeq(s, p + 1, Len(s)), separator)

\* blobToBase64, lines 41-58: base64String.split(',')[1] and getMimeType
blobToBase64(u, b) ==
    [kind |-> "payload",
     data |-> Split(ReadAsDataURL(b), ",")[2],
     mimeType |-> getMimeType(u, b.type)]

(***************************************************************************)
(* The loop of lines 94-126.                                               *)
(***************************************************************************)
\* mutant: const errors (line 92) hoisted to module scope, one array for
\* every call
AdvanceSharedErrors(k, errs, j, done) ==
    /\ errors' = [c \in Calls |-> errs]
    /\ blob' = [blob EXCEPT ![k] = NoBlob]
    /\ IF j > Len(Strategies)
       THEN /\ pc' = [pc EXCEPT ![k] = "thrown"]
            /\ outcome' = [outcome EXCEPT ![k] = AggregateError(errs)]
            /\ inflight' = [inflight EXCEPT ![k] = @ \ done]
            /\ UNCHANGED <<idx, attempts>>
       ELSE /\ pc' = [pc EXCEPT ![k] = "awaitFetch"]
            /\ idx' = [idx EXCEPT ![k] = j]
            /\ attempts' = [attempts EXCEPT ![k] = Append(@, Strategies[j])]
            /\ inflight' = [inflight EXCEPT ![k] = (@ \ done) \cup {Strategies[j]}]
            /\ UNCHANGED outcome

\* mutant: line 126 is missing, the function falls off its end and the call
\* resolves with undefined
AdvanceFallsOff(k, errs, j, done) ==
    /\ errors' = [errors EXCEPT ![k] = errs]
    /\ blob' = [blob EXCEPT ![k] = NoBlob]
    /\ IF j > Len(Strategies)
       THEN /\ pc' = [pc EXCEPT ![k] = "returned"]
            /\ inflight' = [inflight EXCEPT ![k] = @ \ done]
            /\ UNCHANGED <<idx, attempts, outcome>>
       ELSE /\ pc' = [pc EXCEPT ![k] = "awaitFetch"]
            /\ idx' = [idx EXCEPT ![k] = j]
            /\ attempts' = [attempts EXCEPT ![k] = Append(@, Strategies[j])]
            /\ inflight' = [inflight EXCEPT ![k] = (@ \ done) \cup {Strategies[j]}]
            /\ UNCHANGED outcome

\* the loop has settled what to do after an iteration that left the errors
\* errs and completed the attempts of the strategies in done: position j is
\* the strategy to call next (line 99), or is past the list and line 126 throws
Advance(k, errs, j, done) ==
    /\ errors' = [errors EXCEPT ![k] = errs]
    /\ blob' = [blob EXCEPT ![k] = NoBlob]
    /\ IF j > Len(Strategies)
       THEN /\ pc' = [pc EXCEPT ![k] = "thrown"]
            /\ outcome' = [outcome EXCEPT ![k] = AggregateError(errs)]
            /\ inflight' = [inflight EXCEPT ![k] = @ \ done]
            /\ UNCHANGED <<idx, attempts>>
       ELSE /\ pc' = [pc EXCEPT ![k] = "awaitFetch"]
            /\ idx' = [idx EXCEPT ![k] = j]
            /\ attempts' = [attempts EXCEPT ![k] = Append(@, Strategies[j])]
            /\ inflight' = [inflight EXCEPT ![k] = (@ \ done) \cup {Strategies[j]}]
            /\ UNCHANGED outcome

\* mutant: a strategy that failed for the first time is called once more
ContinueRetryOnce(k, i, errs) ==
    Advance(k, errs,
            IF Cardinality({n \in 1..Len(errs) : errs[n].name = Strategies[i]}) = 1
            THEN i ELSE NextApplicable(i, image[k]),
            {Strategies[i]})

\* the loop moves on from position i, whose attempt is over, with the errors
\* errs: lines 94-95 pick the next strategy that is not skipped
Continue(k, i, errs) ==
    Advance(k, errs, NextApplicable(i, image[k]), {Strategies[i]})

\* the catch block of lines 119-123, then the loop goes on
Catch(k, msg) ==
    Continue(k, idx[k], Append(errors[k], ErrorEntry(Strategies[idx[k]], msg)))

\* mutant: line 105 without its await: blob is a promise, blob.type.includes
\* throws a TypeError, and the loop goes on while the body is still being read
OnFetchNoAwaitBlob(k, r) ==
    IF r.kind = "reject" THEN Catch(k, TransportMsg)
    ELSE IF ~Ok(r.status) THEN Catch(k, HttpMsg(r.status))
    ELSE Advance(k, Append(errors[k], ErrorEntry(Strategies[idx[k]], BodyMsg)),
                 NextApplicable(idx[k], image[k]), {})

\* lines 101-105 once strategy.fn() has settled as r
OnFetch(k, r) ==
    IF r.kind = "reject" THEN Catch(k, TransportMsg)
    ELSE IF ~Ok(r.status) THEN Catch(k, HttpMsg(r.status))
    ELSE /\ pc' = [pc EXCEPT ![k] = "awaitBlob"]
         /\ UNCHANGED <<idx, blob, errors, outcome, attempts, inflight>>

\* lines 108-117 once res.blob() has settled as b
OnBlob(k, b) ==
    IF b.kind = "bodyReject" THEN Catch(k, BodyMsg)
    ELSE IF IncludesTextHtml(b.type) THEN Catch(k, HtmlMsg)
    ELSE IF TooSmall(b.size) THEN Catch(k, SmallMsg(b.size))
    ELSE /\ pc' = [pc EXCEPT ![k] = "awaitEncode"]
         /\ blob' = [blob EXCEPT ![k] =
                        [type |-> b.type, size |-> b.size, body |-> Strategies[idx[k]]]]
         /\ UNCHANGED <<idx, errors, outcome, attempts, inflight>>

\* mutant: line 117 returns the promise without awaiting it, so that the
\* reader's failure rejects the call itself
OnEncodeNoAwait(k, e) ==
    /\ pc' = [pc EXCEPT ![k] = IF e.kind = "readerError" THEN "thrown" ELSE "returned"]
    /\ outcome' = [outcome EXCEPT ![k] =
                      IF e.kind = "readerError"
                      THEN [kind |-> "error", what |-> "[object ProgressEvent]",
                            tried |-> 0, details |-> <<>>]
                      ELSE blobToBase64(url[k], blob[k])]
    /\ inflight' = [inflight EXCEPT ![k] = @ \ {Strategies[idx[k]]}]
    /\ UNCHANGED <<idx, blob, errors, attempts>>

\* mutant: the payload is kept but the loop is not left
OnEncodeNoReturn(k, e) ==
    IF e.kind = "readerError" THEN Catch(k, ReaderMsg)
    ELSE Continue(k, idx[k], errors[k])

\* line 117 once blobToBase64(blob) has settled
OnEncode(k, e) ==
    IF e.kind = "readerError" THEN Catch(k, ReaderMsg)
    ELSE /\ pc' = [pc EXCEPT ![k] = "returned"]
         /\ outcome' = [outcome EXCEPT ![k] = blobToBase64(url[k], blob[k])]
         /\ inflight' = [inflight EXCEPT ![k] = @ \ {Strategies[idx[k]]}]
         /\ UNCHANGED <<idx, blob, errors, attempts>>

(***************************************************************************)
(* The actions.                                                            *)
(***************************************************************************)
\* mutant: the module remembers the strategy that worked last and the next
\* call starts from it
urlToGenerativePartRemembers(k, u) ==
    /\ url' = [url EXCEPT ![k] = u]
    /\ image' = [image EXCEPT ![k] = isImage(u)]
    /\ LET worked == {c \in Calls \ {k} : pc[c] = "returned"}
           j == IF worked = {} THEN NextApplicable(0, isImage(u))
                ELSE idx[CHOOSE c \in worked : TRUE]
       IN
       /\ pc' = [pc EXCEPT ![k] = "awaitFetch"]
       /\ idx' = [idx EXCEPT ![k] = j]
       /\ attempts' = [attempts EXCEPT ![k] = <<Strategies[j]>>]
       /\ inflight' = [inflight EXCEPT ![k] = {Strategies[j]}]
       /\ errors' = [errors EXCEPT ![k] = <<>>]
       /\ UNCHANGED <<blob, outcome, seen>>

\* urlToGenerativePart(u), lines 39-99, up to the first await
urlToGenerativePart(k, u) ==
    /\ url' = [url EXCEPT ![k] = u]
    /\ image' = [image EXCEPT ![k] = isImage(u)]
    /\ LET j == NextApplicable(0, isImage(u)) IN
       /\ pc' = [pc EXCEPT ![k] = "awaitFetch"]
       /\ idx' = [idx EXCEPT ![k] = j]
       /\ attempts' = [attempts EXCEPT ![k] = <<Strategies[j]>>]
       /\ inflight' = [inflight EXCEPT ![k] = {Strategies[j]}]
       /\ errors' = [errors EXCEPT ![k] = <<>>]
       /\ UNCHANGED <<blob, outcome, seen>>

\* urlToGenerativePart is called with a URL
Call(k) ==
    /\ pc[k] = "idle"
    /\ \E u \in Urls : urlToGenerativePart(k, u)

\* the promise of strategy.fn() settles
FetchSettled(k) ==
    /\ pc[k] = "awaitFetch"
    /\ \E r \in FetchOutcomes :
        /\ OnFetch(k, r)
        /\ seen' = [seen EXCEPT ![k] = r]
    /\ UNCHANGED <<url, image>>

\* the promise of res.blob() settles
BlobSettled(k) ==
    /\ pc[k] = "awaitBlob"
    /\ \E b \in BlobOutcomes :
        /\ OnBlob(k, b)
        /\ seen' = [seen EXCEPT ![k] = b]
    /\ UNCHANGED <<url, image>>

\* the promise of blobToBase64(blob) settles
EncodeSettled(k) ==
    /\ pc[k] = "awaitEncode"
    /\ \E e \in ReaderOutcomes :
        /\ OnEncode(k, e)
        /\ seen' = [seen EXCEPT ![k] = e]
    /\ UNCHANGED <<url, image>>

InitCalls(C) ==
    /\ pc = [k \in C |-> "idle"]
    /\ url = [k \in C |-> NoUrl]
    /\ image = [k \in C |-> FALSE]
    /\ idx = [k \in C |-> 0]
    /\ blob = [k \in C |-> NoBlob]
    /\ errors = [k \in C |-> <<>>]
    /\ outcome = [k \in C |-> NoOutcome]
    /\ attempts = [k \in C |-> <<>>]
    /\ inflight = [k \in C |-> {}]
    /\ seen = [k \in C |-> NotSeen]

\* nothing has called extractBillData
NoInput  == [kind |-> "none"]
NoPart   == [kind |-> "none"]
NoResult == [kind |-> "none"]
NoText   == [what |-> "", tried |-> 0, details |-> <<>>]
\* the module that exports extractBillData: services/geminiService.ts, or its
\* earlier text, part_000, lines 1-278
ServiceVariants == {"geminiService.ts", "part_000"}
ExtIdle  ==
    [service |-> "geminiService.ts", pc |-> "idle", input |-> NoInput, part |-> NoPart,
     result |-> NoResult]
UiIdle   ==
    [app |-> "none", pc |-> "idle", arg |-> NoInput, loading |-> FALSE, step |-> "idle",
     message |-> NoText, result |-> NoResult]

InitApp(keys) ==
    /\ apiKey \in keys
    /\ ext = ExtIdle
    /\ ui = UiIdle
    /\ runs = <<>>

\* no server runs
InitNoServer ==
    /\ server = [variant |-> "none", up |-> FALSE]
    /\ requests = <<>>

\* no history is kept
InitNoTrace == trace = <<>>

\* one call of the fetcher
Init == InitCalls({1}) /\ InitApp({TRUE}) /\ InitNoServer /\ InitNoTrace

Next ==
    \/ \E k \in Calls : Call(k) /\ UNCHANGED <<appVars, serverVars, trace>>
    \/ \E k \in Calls : FetchSettled(k) /\ UNCHANGED <<appVars, serverVars, trace>>
    \/ \E k \in Calls : BlobSettled(k) /\ UNCHANGED <<appVars, serverVars, trace>>
    \/ \E k \in Calls : EncodeSettled(k) /\ UNCHANGED <<appVars, serverVars, trace>>

Spec == Init /\ [][Next]_vars

(***************************************************************************)
(* Vocabulary of the properties.                                           *)
(***************************************************************************)
Last(s) == s[Len(s)]
Range(s) == {s[n] : n \in 1..Len(s)}

\* the position of a strategy in the list
Position(name) == CHOOSE j \in 1..Len(Strategies) : Strategies[j] = name

\* the strategies whose skip flag is false in call k
Applicable(k) ==
    {Strategies[j] : j \in {i \in 1..Len(Strategies) : ~Skip(Strategies[i], image[k])}}

\* the strategies that have an entry in errs
Failed(errs) == {errs[n].name : n \in 1..Len(errs)}

\* call k has just handled a settled promise; the strategy it belonged to
Handled(k) ==
    IF pc[k] = "awaitFetch" THEN attempts[k][Len(attempts[k]) - 1] ELSE Last(attempts[k])

\* the strategy that follows name among those applicable in call k, "" if none
Following(name, k) ==
    LET later == {j \in (Position(name) + 1)..Len(Strategies) : Strategies[j] \in Applicable(k)}
    IN IF later = {} THEN ""
       ELSE Strategies[CHOOSE j \in later : \A m \in later : j <= m]

\* call k recorded the failure msg under the handled strategy and went on:
\* to the following applicable strategy, or to the aggregate error
RecoveredBy(k, msg) ==
    /\ pc[k] \in {"awaitFetch", "thrown"}
    /\ errors[k] # <<>>
    /\ Last(errors[k]) = [name |-> Handled(k), msg |-> msg]
    /\ IF Following(Handled(k), k) = ""
       THEN pc[k] = "thrown"
       ELSE pc[k] = "awaitFetch" /\ Last(attempts[k]) = Following(Handled(k), k)

(***************************************************************************)
(* C1.  urlToGenerativePart throws the aggregate error only after every    *)
(* applicable strategy has been attempted and has failed: whenever the     *)
(* call has thrown, every strategy that is not skipped has been called,    *)
(* has an entry in the errors, and none is still in progress.              *)
(***************************************************************************)
C1_FailsOnlyWhenExhausted ==
    \A k \in Calls :
        (pc[k] = "thrown" \/ outcome[k].kind = "error") =>
            /\ Applicable(k) \subseteq Range(attempts[k])
            /\ Applicable(k) \subseteq Failed(errors[k])
            /\ inflight[k] = {}

\* a call of an image URL has thrown after all five strategies failed
C1_Witness ==
    \E k \in Calls :
        pc[k] = "thrown" /\ image[k] /\ Len(attempts[k]) = Len(Strategies)

(***************************************************************************)
(* C2 as stated.  Once a strategy's response has passed validation, no     *)
(* further strategy is attempted; when the response of Direct has passed   *)
(* (success status, no HTML, at least 100 bytes), Direct stays the only    *)
(* strategy attempted and the call returns the payload of its body.        *)
(***************************************************************************)
C2_AcceptedEndsTheCall ==
    [][\A k \in Calls :
          (pc[k] = "awaitEncode" /\ pc'[k] # "awaitEncode") =>
              /\ attempts'[k] = attempts[k]
              /\ pc'[k] = "returned"
              /\ outcome'[k].kind = "payload"
              /\ outcome'[k].data = Base64(Last(attempts[k]))]_vars

(***************************************************************************)
(* C2 amended.  Once a strategy's response has passed validation and its   *)
(* body has been encoded, the call returns that body's payload and no      *)
(* further strategy is attempted; in particular, when Direct's response    *)
(* passes and is encoded, Direct is the only strategy attempted.  When     *)
(* the encoding fails, the failure is recorded as that strategy's and the  *)
(* loop goes on.                                                           *)
(***************************************************************************)
C2_EncodedEndsTheCall ==
    /\ [](\A k \in Calls :
            /\ seen[k].kind = "load" =>
                 /\ pc[k] = "returned"
                 /\ outcome[k].kind = "payload"
                 /\ outcome[k].data = Base64(Last(attempts[k]))
                 /\ Failed(errors[k]) = Range(attempts[k]) \ {Last(attempts[k])}
                 /\ inflight[k] = {}
            /\ seen[k].kind = "readerError" => RecoveredBy(k, ReaderMsg)
            /\ pc[k] = "returned" => seen[k].kind = "load")
    /\ [][\A k \in Calls :
            /\ (pc[k] = "awaitEncode" /\ seen'[k].kind = "load") =>
                   (attempts'[k] = attempts[k] /\ pc'[k] = "returned")
            /\ pc[k] = "returned" =>
                   (attempts'[k] = attempts[k] /\ pc'[k] = "returned"
                    /\ outcome'[k] = outcome[k])]_vars

\* Direct's response was accepted and encoded: Direct is all that was attempted
C2_Witness ==
    \E k \in Calls :
        /\ pc[k] = "returned"
        /\ attempts[k] = <<"Direct">>
        /\ outcome[k].data = Base64("Direct")

(***************************************************************************)
(* C3.  Strategies are attempted in the order of the list: a strategy      *)
(* that is skipped is never attempted, and when a strategy is attempted    *)
(* every applicable strategy before it in the list has been attempted      *)
(* earlier and has failed.                                                 *)
(***************************************************************************)
C3_PriorityOrder ==
    \A k \in Calls : \A n \in 1..Len(attempts[k]) :
        /\ ~Skip(attempts[k][n], image[k])
        /\ \A m \in 1..(n - 1) : Position(attempts[k][m]) < Position(attempts[k][n])
        /\ \A j \in 1..(Position(attempts[k][n]) - 1) :
              ~Skip(Strategies[j], image[k]) =>
                  \E m \in 1..(n - 1) :
                      /\ attempts[k][m] = Strategies[j]
                      /\ m <= Len(errors[k])
                      /\ errors[k][m].name = Strategies[j]

\* a URL that is no image has run through its four strategies, in order
C3_Witness ==
    \E k \in Calls :
        /\ ~image[k]
        /\ attempts[k] = <<"Direct", "CorsProxy.io", "AllOrigins", "ThingProxy">>

(***************************************************************************)
(* C4.  WeServer is applicable exactly when the path of the URL (the URL   *)
(* up to its query string) ends in .jpg, .jpeg, .png, .webp or .gif: for   *)
(* such a URL it is the second strategy attempted, and for a URL whose     *)
(* path ends in .pdf, with or without a query string, it is never          *)
(* attempted.                                                              *)
(***************************************************************************)
PathHasImageExtension(u) ==
    \E e \in ImageExtensions : EndsWith(ToLowerCase(BeforeQuery(u)), <<".">> \o e)

PathIsPdf(u) == EndsWith(ToLowerCase(BeforeQuery(u)), <<".">> \o PDF)

C4_ImageProxyByPathExtension ==
    \A k \in Calls :
        pc[k] # "idle" =>
            /\ Len(attempts[k]) >= 2 =>
                   (attempts[k][2] = "WeServer" <=> PathHasImageExtension(url[k]))
            /\ PathIsPdf(url[k]) => "WeServer" \notin Range(attempts[k])

(***************************************************************************)
(* C5.  No failure of a single attempt leaves the fetcher: a rejected      *)
(* fetch, a status that is not a success, a body that cannot be read, an   *)
(* HTML body, an undersized body and a failed encoding are each recorded   *)
(* under the strategy's name, and the loop goes on to the next applicable  *)
(* strategy; the only error the call throws is the aggregate one.          *)
(***************************************************************************)
C5_AttemptFailuresAreRecovered ==
    \A k \in Calls :
        /\ seen[k].kind = "reject" => RecoveredBy(k, TransportMsg)
        /\ (seen[k].kind = "response" /\ ~Ok(seen[k].status)) =>
               RecoveredBy(k, HttpMsg(seen[k].status))
        /\ seen[k].kind = "bodyReject" => RecoveredBy(k, BodyMsg)
        /\ (seen[k].kind = "blob" /\ seen[k].type \in HtmlTypes) => RecoveredBy(k, HtmlMsg)
        /\ (seen[k].kind = "blob" /\ seen[k].type \notin HtmlTypes
                                  /\ seen[k].size < MinBlobSize) =>
               RecoveredBy(k, SmallMsg(seen[k].size))
        /\ seen[k].kind = "readerError" => RecoveredBy(k, ReaderMsg)
        /\ outcome[k].kind = "error" =>
               /\ pc[k] = "thrown"
               /\ outcome[k].what = "Failed to fetch document"
               /\ outcome[k].details = errors[k]
        /\ pc[k] = "thrown" => outcome[k].kind = "error"

\* a failed encoding was recorded and the next strategy is being fetched
C5_Witness ==
    \E k \in Calls :
        /\ seen[k].kind = "readerError"
        /\ pc[k] = "awaitFetch"
        /\ Last(errors[k]).msg = ReaderMsg

(***************************************************************************)
(* C6.  A response with a success status whose content type is text/html,  *)
(* with or without parameters, makes its strategy fail: the failure is     *)
(* recorded, the next applicable strategy is tried, and no payload is      *)
(* ever built from a blob of an HTML type.                                 *)
(***************************************************************************)
C6_HtmlIsAFailure ==
    \A k \in Calls :
        /\ (seen[k].kind = "blob" /\ Ok(seen[k].status) /\ seen[k].type \in HtmlTypes) =>
               RecoveredBy(k, HtmlMsg)
        /\ pc[k] \in {"awaitEncode", "returned"} => blob[k].type \notin HtmlTypes
        /\ outcome[k].kind = "payload" => outcome[k].mimeType \notin HtmlTypes

\* an HTML page with a charset parameter and a plausible size was turned down
C6_Witness ==
    \E k \in Calls :
        /\ seen[k] = [kind |-> "blob", status |-> 200,
                      type |-> "text/html;charset=utf-8", size |-> MinBlobSize + 1]
        /\ pc[k] = "awaitFetch"
        /\ Last(errors[k]).msg = HtmlMsg

(***************************************************************************)
(* C7.  No body of fewer than 100 bytes is accepted, whatever the status   *)
(* and the type: it is recorded as a failure (as too small when the type   *)
(* is not HTML) and the next strategy is tried.  A body of exactly 100     *)
(* bytes with a success status and a type that is not HTML is accepted.    *)
(***************************************************************************)
C7_MinimumSize ==
    \A k \in Calls :
        /\ (seen[k].kind = "blob" /\ seen[k].size < MinBlobSize) =>
               RecoveredBy(k, IF seen[k].type \in HtmlTypes THEN HtmlMsg
                              ELSE SmallMsg(seen[k].size))
        /\ pc[k] \in {"awaitEncode", "returned"} => blob[k].size >= MinBlobSize
        /\ (seen[k].kind = "blob" /\ seen[k].size = MinBlobSize
                                  /\ seen[k].type \notin HtmlTypes) =>
               /\ pc[k] = "awaitEncode"
               /\ blob[k] = [type |-> seen[k].type, size |-> MinBlobSize,
                             body |-> Last(attempts[k])]

\* a 50-byte body was turned down as too small, then one of exactly 100 bytes
\* was accepted
C7_Witness ==
    \E k \in Calls :
        /\ errors[k] # <<>>
        /\ Last(errors[k]).msg = SmallMsg(50)
        /\ pc[k] = "awaitEncode"
        /\ blob[k].size = MinBlobSize

(***************************************************************************)
(* C8.  When the call throws, the details of the aggregate error hold      *)
(* exactly one entry for each strategy attempted, in the order of the      *)
(* attempts, each under the strategy's name, and none for a strategy that  *)
(* was skipped.                                                            *)
(***************************************************************************)
C8_DetailsListTheAttempts ==
    \A k \in Calls :
        outcome[k].kind = "error" =>
            /\ Len(outcome[k].details) = Len(attempts[k])
            /\ \A n \in 1..Len(attempts[k]) : outcome[k].details[n].name = attempts[k][n]
            /\ \A n \in 1..Len(outcome[k].details) :
                  ~Skip(outcome[k].details[n].name, image[k])
            /\ \A s \in Range(attempts[k]) :
                  Cardinality({n \in 1..Len(outcome[k].details) :
                                  outcome[k].details[n].name = s}) = 1

\* the aggregate error of a URL that is no image: four entries, none of WeServer
C8_Witness ==
    \E k \in Calls :
        /\ outcome[k].kind = "error"
        /\ ~image[k]
        /\ Len(outcome[k].details) = 4
        /\ "WeServer" \notin Failed(outcome[k].details)

(***************************************************************************)
(* C9.  Within one call each strategy's retrieval function is called at    *)
(* most once, and every applicable strategy the loop has reached has been  *)
(* called exactly once: a failed strategy is never retried.                *)
(***************************************************************************)
C9_EachStrategyOnce ==
    \A k \in Calls : \A j \in 1..Len(Strategies) :
        LET calls == Cardinality({n \in 1..Len(attempts[k]) : attempts[k][n] = Strategies[j]})
        IN /\ calls <= 1
           /\ (j <= idx[k] /\ ~Skip(Strategies[j], image[k])) => calls = 1

\* two strategies have failed and the third is being fetched
C9_Witness ==
    \E k \in Calls :
        /\ Len(errors[k]) = 2
        /\ Len(attempts[k]) = 3
        /\ pc[k] = "awaitFetch"

(***************************************************************************)
(* C10.  Within one call at most one attempt is in progress at any time:   *)
(* a request is issued only when every earlier attempt has completed with  *)
(* a failure.                                                              *)
(***************************************************************************)
C10_OneAttemptAtATime ==
    \A k \in Calls :
        /\ Cardinality(inflight[k]) <= 1
        /\ pc[k] \in {"awaitFetch", "awaitBlob", "awaitEncode"} =>
               /\ inflight[k] = {Last(attempts[k])}
               /\ Len(errors[k]) = Len(attempts[k]) - 1
               /\ \A n \in 1..Len(errors[k]) : errors[k][n].name = attempts[k][n]

\* the second request is out and the first attempt is over
C10_Witness ==
    \E k \in Calls :
        /\ pc[k] = "awaitFetch"
        /\ Len(attempts[k]) = 2
        /\ inflight[k] = {attempts[k][2]}
        /\ Failed(errors[k]) = {attempts[k][1]}

(***************************************************************************)
(* C23.  The number of methods that the aggregate error says were tried    *)
(* is the number of strategies that the call attempted, which is the       *)
(* number of entries of its details, for a URL that looks like an image    *)
(* and for one that does not.                                              *)
(***************************************************************************)
C23_TriedCountsTheAttempts ==
    \A k \in Calls :
        outcome[k].kind = "error" =>
            /\ outcome[k].tried = Len(attempts[k])
            /\ outcome[k].tried = Len(outcome[k].details)

(***************************************************************************)
(* Two calls of the fetcher in progress at once.  Every call has its own   *)
(* activation of lines 39-127: url, isImage, strategies, errors, res and   *)
(* blob are parameters and locals (lines 39, 60, 63, 92, 101, 105), and    *)
(* the module keeps no variable between them.  The event loop runs one     *)
(* continuation at a time, in any order.                                   *)
(***************************************************************************)
PairCalls == {1, 2}

\* call 1 fetches an image, call 2 another document
PairUrls(k) ==
    IF k = 1 THEN {Host \o <<".">> \o PNG, Host \o <<".">> \o GIF}
    ELSE {Host \o <<".">> \o PDF, Host}

PairFetchOutcomes == {r \in FetchOutcomes : r.kind = "reject" \/ Ok(r.status)}
PairBlobOutcomes ==
    {b \in BlobOutcomes : b.kind = "blob" /\ b.size = MinBlobSize
                           /\ b.type \in {"text/html", "application/octet-stream"}}

InitPair == InitCalls(PairCalls) /\ InitApp({TRUE}) /\ InitNoServer /\ InitNoTrace

NextPair ==
    \/ \E k \in Calls : Call(k) /\ url'[k] \in PairUrls(k) /\ UNCHANGED <<appVars, serverVars, trace>>
    \/ \E k \in Calls :
          FetchSettled(k) /\ seen'[k] \in PairFetchOutcomes /\ UNCHANGED <<appVars, serverVars, trace>>
    \/ \E k \in Calls :
          BlobSettled(k) /\ seen'[k] \in PairBlobOutcomes /\ UNCHANGED <<appVars, serverVars, trace>>
    \/ \E k \in Calls : EncodeSettled(k) /\ UNCHANGED <<appVars, serverVars, trace>>

SpecPair == InitPair /\ [][NextPair]_vars

\* what call k holds
View(k) ==
    <<pc[k], url[k], image[k], idx[k], blob[k], errors[k], outcome[k], attempts[k],
      inflight[k], seen[k]>>

\* the message of the failure that the settled promise o stands for, NoMsg
\* when it is not a failure
NoMsg == [kind |-> "", n |-> 0]
FailureOf(o) ==
    CASE o.kind = "reject" -> TransportMsg
      [] o.kind = "response" -> IF Ok(o.status) THEN NoMsg ELSE HttpMsg(o.status)
      [] o.kind = "bodyReject" -> BodyMsg
      [] o.kind = "blob" -> IF o.type \in HtmlTypes THEN HtmlMsg
                            ELSE IF o.size < MinBlobSize THEN SmallMsg(o.size)
                            ELSE NoMsg
      [] o.kind = "readerError" -> ReaderMsg
      [] OTHER -> NoMsg

\* the step is the one call k takes when it runs alone: its new attempts,
\* errors and result are determined by what it held itself and by how the
\* promise it awaited has settled
AloneStep(k) ==
    IF pc[k] = "idle"
    THEN /\ attempts'[k] = <<"Direct">>
         /\ errors'[k] = <<>>
         /\ outcome'[k] = NoOutcome
    ELSE LET o == seen'[k]
             s == Last(attempts[k])
         IN IF FailureOf(o) # NoMsg
            THEN /\ errors'[k] = Append(errors[k], [name |-> s, msg |-> FailureOf(o)])
                 /\ IF Following(s, k) = ""
                    THEN /\ attempts'[k] = attempts[k]
                         /\ outcome'[k].kind = "error"
                         /\ outcome'[k].details = errors'[k]
                    ELSE /\ attempts'[k] = Append(attempts[k], Following(s, k))
                         /\ outcome'[k] = NoOutcome
            ELSE /\ errors'[k] = errors[k]
                 /\ attempts'[k] = attempts[k]
                 /\ IF o.kind = "load"
                    THEN outcome'[k] = [kind |-> "payload", data |-> Base64(s),
                                        mimeType |-> getMimeType(url[k], blob[k].type)]
                    ELSE outcome'[k] = NoOutcome

(***************************************************************************)
(* C11.  Calls of urlToGenerativePart that are in progress at once do not  *)
(* interfere: a step of one call leaves everything the other calls hold    *)
(* as it was, and the attempts, the errors and the result of the call      *)
(* that took the step are the ones it would have running alone with the    *)
(* same response.                                                          *)
(***************************************************************************)
C11_CallsDoNotInterfere ==
    [][\A k \in Calls :
          View(k)' # View(k) =>
              /\ AloneStep(k)
              /\ \A c \in Calls \ {k} : View(c)' = View(c)]_vars

\* both calls are between attempts, each with failures of its own, the
\* image call at the image proxy and the other call past it
C11_Witness ==
    /\ Calls = PairCalls
    /\ pc[1] = "awaitBlob" /\ Last(attempts[1]) = "WeServer"
    /\ pc[2] = "awaitFetch" /\ Last(attempts[2]) = "AllOrigins"
    /\ Failed(errors[1]) = {"Direct"}
    /\ Failed(errors[2]) = {"Direct", "CorsProxy.io"}
    /\ errors[2][1].msg # errors[1][1].msg

(***************************************************************************)
(* One call of the fetcher whose attempts all complete: the browser        *)
(* settles every promise the call awaits, and the event loop runs the      *)
(* continuation.  Nothing makes anybody call the fetcher.                  *)
(***************************************************************************)
FairCalls == {1}

\* an image, another document, and a document without an extension
FairUrls == {Host \o <<".">> \o PNG, Host \o <<".">> \o PDF, Host}

FairFetchOutcomes == {r \in FetchOutcomes : r.kind = "reject" \/ Ok(r.status)}
FairBlobOutcomes ==
    {b \in BlobOutcomes : b.kind = "blob" /\ b.size \in {50, MinBlobSize}
                          /\ b.type \in {"text/html", "image/png"}}

FairCall ==
    \E k \in Calls : Call(k) /\ url'[k] \in FairUrls /\ UNCHANGED <<appVars, serverVars, trace>>
FairFetchSettled ==
    \E k \in Calls :
        FetchSettled(k) /\ seen'[k] \in FairFetchOutcomes /\ UNCHANGED <<appVars, serverVars, trace>>
FairBlobSettled ==
    \E k \in Calls :
        BlobSettled(k) /\ seen'[k] \in FairBlobOutcomes /\ UNCHANGED <<appVars, serverVars, trace>>
FairEncodeSettled == \E k \in Calls : EncodeSettled(k) /\ UNCHANGED <<appVars, serverVars, trace>>

InitFair == InitCalls(FairCalls) /\ InitApp({TRUE}) /\ InitNoServer /\ InitNoTrace

NextFair ==
    \/ FairCall
    \/ FairFetchSettled
    \/ FairBlobSettled
    \/ FairEncodeSettled

SpecFair ==
    /\ InitFair
    /\ [][NextFair]_vars
    /\ WF_vars(FairFetchSettled)
    /\ WF_vars(FairBlobSettled)
    /\ WF_vars(FairEncodeSettled)

\* call k has ended with a payload or with the aggregate error
Terminated(k) ==
    \/ pc[k] = "returned" /\ outcome[k].kind = "payload"
    \/ pc[k] = "thrown" /\ outcome[k].kind = "error" /\ outcome[k].details = errors[k]

\* the most attempts a call for this URL can make
MostAttempts(k) == IF image[k] THEN Len(Strategies) ELSE Len(Strategies) - 1

(***************************************************************************)
(* C18.  If every attempt that is started completes, every call of         *)
(* urlToGenerativePart terminates, returning a payload or throwing the     *)
(* aggregate error, after at most 5 attempts for a URL that looks like an  *)
(* image and at most 4 otherwise; an attempt ends only when its own        *)
(* promise has settled, never by a cancellation or a timeout.              *)
(***************************************************************************)
C18_EveryCallTerminates ==
    /\ \A k \in FairCalls : pc[k] # "idle" ~> Terminated(k)
    /\ [](\A k \in FairCalls : Len(attempts[k]) <= MostAttempts(k))
    /\ [][\A k \in FairCalls :
              inflight[k] \ inflight'[k] # {} =>
                  /\ inflight[k] \ inflight'[k] = {Strategies[idx[k]]}
                  /\ FailureOf(seen'[k]) # NoMsg \/ seen'[k].kind = "load"]_vars

\* a call for an image has thrown after five attempts
C18_Witness ==
    \E k \in FairCalls :
        /\ Terminated(k)
        /\ pc[k] = "thrown"
        /\ image[k]
        /\ Len(attempts[k]) = MostAttempts(k)
        /\ inflight[k] = {}

\* the path of u, in lower case, ends in the extension ext
PathEndsIn(u, x) == EndsWith(ToLowerCase(BeforeQuery(u)), <<".">> \o x)

\* call k has returned a payload for a body whose declared type was t
Resolved(k, t) == pc[k] = "returned" /\ outcome[k].kind = "payload" /\ blob[k].type = t

(***************************************************************************)
(* C12, as stated.  The payload of an accepted response carries the        *)
(* declared type unchanged whenever that type is present and is not        *)
(* application/octet-stream.                                               *)
(***************************************************************************)
C12_DeclaredUnlessOctetStream ==
    \A k \in Calls : \A t \in BlobTypes \ {"", "application/octet-stream"} :
        Resolved(k, t) => outcome[k].mimeType = t

\* the declared types that getMimeType does not keep
GenericTypes == {"", "application/octet-stream", "application/x-www-form-urlencoded"}

(***************************************************************************)
(* C12.  MIME resolution of an accepted response: a declared type that is  *)
(* present and is neither application/octet-stream nor                     *)
(* application/x-www-form-urlencoded is returned unchanged; otherwise the  *)
(* type follows the extension of the URL's path (the part before the       *)
(* first "?", in any letter case): .png gives image/png, .jpg and .jpeg    *)
(* give image/jpeg, .pdf gives application/pdf, .webp gives image/webp,    *)
(* and any other path gives the default application/pdf.                   *)
(***************************************************************************)
C12_MimeResolution ==
    \A k \in Calls : \A t \in BlobTypes :
        Resolved(k, t) =>
            LET m == outcome[k].mimeType
                u == url[k]
            IN IF t \notin GenericTypes THEN m = t
               ELSE /\ PathEndsIn(u, PNG) => m = "image/png"
                    /\ PathEndsIn(u, JPG) \/ PathEndsIn(u, JPEG) => m = "image/jpeg"
                    /\ PathEndsIn(u, PDF) => m = "application/pdf"
                    /\ PathEndsIn(u, WEBP) => m = "image/webp"
                    /\ (\A x \in {PNG, JPG, JPEG, PDF, WEBP} : ~PathEndsIn(u, x))
                           => m = "application/pdf"

\* a body declared as form data, fetched from a .png path that carries a
\* query string, has been returned as image/png
C12_Witness ==
    \E k \in Calls :
        /\ Resolved(k, "application/x-www-form-urlencoded")
        /\ url[k] = Host \o <<".">> \o PNG \o <<"?", "v">>
        /\ outcome[k].mimeType = "image/png"

\* the MIME types of images
ImageTypes == {"image/png", "image/jpeg", "image/webp", "image/gif"}

(***************************************************************************)
(* C24.  For a URL for which the image proxy is applicable (its path ends  *)
(* in .jpg, .jpeg, .png, .webp or .gif), the type inferred from the URL    *)
(* when the accepted response declares a generic type or none is an image  *)
(* type, never the default application/pdf.                                *)
(***************************************************************************)
C24_ImageUrlsResolveToImages ==
    \A k \in Calls : \A t \in GenericTypes :
        (Resolved(k, t) /\ image[k] /\ PathHasImageExtension(url[k])) =>
            /\ outcome[k].mimeType \in ImageTypes
            /\ outcome[k].mimeType # "application/pdf"

(***************************************************************************)
(* One call of the fetcher with the responses it was given written down,   *)
(* among them bodies whose content type carries a parameter.               *)
(***************************************************************************)
BodyUrls == {Host \o <<".">> \o PNG, Host}

BodyFetchOutcomes == {r \in FetchOutcomes : r.kind = "reject" \/ Ok(r.status)}
BodyBlobOutcomes ==
    [kind : {"blob"}, status : {200},
     type : {"text/html", "application/octet-stream", "image/png", NamedType},
     size : {50, MinBlobSize}]

BodyCall ==
    \E k \in Calls : Call(k) /\ url'[k] \in BodyUrls /\ UNCHANGED <<appVars, serverVars, trace>>
BodyFetchSettled ==
    \E k \in Calls :
        /\ FetchSettled(k)
        /\ seen'[k] \in BodyFetchOutcomes
        /\ trace' = [trace EXCEPT ![k] = Append(@, seen'[k])]
        /\ UNCHANGED <<appVars, serverVars>>
BodyBlobSettled ==
    \E k \in Calls :
        /\ pc[k] = "awaitBlob"
        /\ \E b \in BodyBlobOutcomes :
              /\ OnBlob(k, b)
              /\ seen' = [seen EXCEPT ![k] = b]
        /\ trace' = [trace EXCEPT ![k] = Append(@, seen'[k])]
        /\ UNCHANGED <<url, image, appVars, serverVars>>
BodyEncodeSettled ==
    \E k \in Calls :
        /\ EncodeSettled(k)
        /\ trace' = [trace EXCEPT ![k] = Append(@, seen'[k])]
        /\ UNCHANGED <<appVars, serverVars>>

InitBody ==
    /\ InitCalls({1})
    /\ InitApp({TRUE})
    /\ InitNoServer
    /\ trace = [k \in {1} |-> <<>>]

NextBody ==
    \/ BodyCall
    \/ BodyFetchSettled
    \/ BodyBlobSettled
    \/ BodyEncodeSettled

SpecBody == InitBody /\ [][NextBody]_vars

\* the bodies that call k was given, oldest first, and the last of them
Bodies(k) == SelectSeq(trace[k], LAMBDA o : o.kind = "blob")
AcceptedBody(k) == Last(Bodies(k))

(***************************************************************************)
(* C21.  When a strategy is accepted, the data of the payload returned is  *)
(* the encoding of the body of that strategy's response, and its MIME      *)
(* type is resolved from the content type of that same response and the    *)
(* URL of the call; neither the data nor the type of the response of a     *)
(* strategy that failed earlier is in the result.                          *)
(***************************************************************************)
C21_PayloadOfTheAcceptedResponse ==
    \A k \in Calls :
        pc[k] = "returned" =>
            /\ outcome[k].data = Base64(Last(attempts[k]))
            /\ outcome[k].mimeType = getMimeType(url[k], AcceptedBody(k).type)
            /\ \A s \in Failed(errors[k]) : outcome[k].data # Base64(s)

(***************************************************************************)
(* extractBillData (geminiService.ts, lines 182-285) and the components    *)
(* that call it: handleProcess behind the FileUpload component, and        *)
(* processDocument behind handleUrlSubmit and handleFileUpload.            *)
(***************************************************************************)
MaxItems == 2

\* file.type: "" when the browser cannot determine the type of the file
FileTypes == {"image/png", ""}
Files == [kind : {"File"}, type : FileTypes, body : {"upload"}]

\* the characters of a MIME type
TypeChars(t) ==
    IF t = "image/png" THEN <<"i", "m", "a", "g", "e", "/">> \o PNG
    ELSE <<"a", "p", "p", "l", "i", "c", "a", "t", "i", "o", "n", "/",
           "o", "c", "t", "e", "t", "-", "s", "t", "r", "e", "a", "m">>

\* the type a FileReader writes into the data: URL of a file
ReaderType(file) == IF file.type = "" THEN "application/octet-stream" ELSE file.type

DataPrefix   == <<"d", "a", "t", "a", ":">>
Base64Marker == <<";", "b", "a", "s", "e", "6", "4", ",">>
Base64Chars  == <<"Q", "U", "I", "=">>

\* reader.readAsDataURL(file), event.target.result as a string (App.tsx,
\* lines 30-35)
DataUrl(file) == DataPrefix \o TypeChars(ReaderType(file)) \o Base64Marker \o Base64Chars

StartsWith(str, prefix) ==
    /\ Len(str) >= Len(prefix)
    /\ SubSeq(str, 1, Len(prefix)) = prefix

IsDataUrl(u) == StartsWith(u, DataPrefix)

\* the media type that fetch() gives the body of a data: URL
DataUrlType(u) ==
    CHOOSE t \in {"image/png", "application/octet-stream"} :
        StartsWith(u, DataPrefix \o TypeChars(t) \o Base64Marker)

\* the strings given to extractBillData
ClientUrls == {Host \o <<".">> \o PNG, Host \o <<".">> \o PDF}
StringInput(chars) == [kind |-> "string", chars |-> chars]
Inputs == Files \cup {StringInput(u) : u \in ClientUrls \cup {DataUrl(f) : f \in Files}}

\* an Error with the message text; what a rejected FileReader passes on
Error(text) == [kind |-> "error", what |-> text, tried |-> 0, details |-> <<>>]
ProgressEvent == [kind |-> "event", what |-> "[object ProgressEvent]", tried |-> 0,
                  details |-> <<>>]
\* err.message
MessageOf(e) == [what |-> e.what, tried |-> e.tried, details |-> e.details]
\* a literal message
Text(str) == [what |-> str, tried |-> 0, details |-> <<>>]

\* what the model answers (lines 236-252): the JSON document of
\* extractionSchema (lines 129-178)
BillItem(i) ==
    [item_name |-> "item", item_amount |-> i, item_rate |-> 0, item_quantity |-> 0]
Page(n, count) ==
    [page_no |-> n, page_type |-> "Bill Detail", bill_items |-> [i \in 1..count |-> BillItem(i)]]
PageLists ==
    {<<>>} \cup {<<Page(1, a)>> : a \in 0..MaxItems}
           \cup {<<Page(1, a), Page(2, b)>> : a \in 1..MaxItems, b \in 0..MaxItems}
NoUsage == [total_tokens |-> 0, input_tokens |-> 0, output_tokens |-> 0]
NoData == [pagewise_line_items |-> <<>>, total_item_count |-> 0]
Documents ==
    [is_success : BOOLEAN, token_usage : {[total_tokens |-> 7, input_tokens |-> 7,
                                           output_tokens |-> 7]},
     data : [pagewise_line_items : PageLists, total_item_count : 0..(2 * MaxItems)]]
NoDocument == [is_success |-> FALSE, token_usage |-> NoUsage, data |-> NoData]

\* response.text: empty, not JSON, or the JSON text of a document
ResponseTexts ==
    {[kind |-> "empty", value |-> NoDocument], [kind |-> "garbage", value |-> NoDocument]}
    \cup [kind : {"json"}, value : Documents]

\* the counts of response.usageMetadata
AllCounts == {"totalTokenCount", "promptTokenCount", "candidatesTokenCount"}

\* response.usageMetadata, when there is one, with the counts it holds
UsageMetadata ==
    {[present |-> FALSE, counts |-> {}, totalTokenCount |-> 0, promptTokenCount |-> 0,
      candidatesTokenCount |-> 0],
     [present |-> TRUE, counts |-> AllCounts, totalTokenCount |-> 30,
      promptTokenCount |-> 20, candidatesTokenCount |-> 10]}

\* a usageMetadata without candidatesTokenCount (the answer had no candidate)
PartialUsage ==
    [present |-> TRUE, counts |-> {"totalTokenCount", "promptTokenCount"},
     totalTokenCount |-> 20, promptTokenCount |-> 20, candidatesTokenCount |-> 0]

\* how the promise of ai.models.generateContent settles (line 236)
ModelOutcomes ==
    {[kind |-> "reject", text |-> [kind |-> "empty", value |-> NoDocument],
      usage |-> CHOOSE m \in UsageMetadata : ~m.present]}
    \cup [kind : {"response"}, text : ResponseTexts, usage : UsageMetadata]

\* usageMetadata.<count> || 0
OrZero(usage, count) ==
    IF count \in usage.counts /\ usage[count] # 0 THEN usage[count] ELSE 0

\* lines 263-277: the token_usage taken from the usage metadata
TokenUsage(usage) ==
    IF usage.present
    THEN [total_tokens |-> OrZero(usage, "totalTokenCount"),
          input_tokens |-> OrZero(usage, "promptTokenCount"),
          output_tokens |-> OrZero(usage, "candidatesTokenCount")]
    ELSE NoUsage

\* lines 258-279: the parsed document with its token_usage replaced
WithUsage(doc, usage) ==
    [kind |-> "response",
     is_success |-> doc.is_success,
     token_usage |-> TokenUsage(usage),
     data |-> doc.data]

\* part_000, lines 261-272: the token_usage is replaced when there is usage
\* metadata, and there is no else
WithUsageIfPresent(doc, usage) ==
    [kind |-> "response",
     is_success |-> doc.is_success,
     token_usage |-> IF usage.present THEN TokenUsage(usage) ELSE doc.token_usage,
     data |-> doc.data]

\* mutant: setIsProcessing(false) at the end of the try instead of in a
\* finally: a thrown error leaves the flag set
AfterHandleProcessNoFinally(u, e) ==
    IF e.pc = "returned"
    THEN [u EXCEPT !.pc = "done", !.loading = FALSE, !.result = e.result]
    ELSE [u EXCEPT !.pc = "done",
                   !.message = IF e.result.kind = "error" THEN MessageOf(e.result)
                               ELSE Text("An unknown error occurred")]

\* App.tsx, lines 295-308: handleProcess once extractBillData has settled
AfterHandleProcess(u, e) ==
    IF e.pc = "returned"
    THEN [u EXCEPT !.pc = "done", !.loading = FALSE, !.result = e.result]
    ELSE [u EXCEPT !.pc = "done", !.loading = FALSE,
                   !.message = IF e.result.kind = "error" THEN MessageOf(e.result)
                               ELSE Text("An unknown error occurred")]

\* App.tsx, lines 52-67: processDocument once extractBillData has settled
AfterProcessDocument(u, e) ==
    IF e.pc = "returned"
    THEN [u EXCEPT !.pc = "done", !.loading = FALSE, !.result = e.result,
                   !.step = IF e.result.is_success THEN "complete" ELSE "error",
                   !.message = IF e.result.is_success THEN Text("Extraction Successful")
                               ELSE Text("Extraction Failed")]
    ELSE [u EXCEPT !.pc = "done", !.loading = FALSE, !.step = "error",
                   !.result = [kind |-> "response", is_success |-> FALSE,
                               token_usage |-> NoUsage, data |-> NoData,
                               error |-> "Application error occurred"],
                   !.message = Text("An unexpected error occurred")]

\* the caller goes on when the call e of extractBillData has settled
Resume(u, e) ==
    IF e.pc \notin {"returned", "thrown"} THEN u
    ELSE IF u.app = "handleProcess" THEN AfterHandleProcess(u, e)
    ELSE IF u.app = "processDocument" THEN AfterProcessDocument(u, e)
    ELSE [u EXCEPT !.pc = "done"]

\* extractBillData(input), lines 182-195, up to the first await, called
\* by the component in state u
extractBillData(input, u) ==
    /\ IF ~apiKey
       THEN /\ ext' = [service |-> ext.service, pc |-> "thrown", input |-> input,
                       part |-> NoPart,
                       result |-> Error("API Key is missing in environment variables.")]
            /\ UNCHANGED fetcherVars
       ELSE IF input.kind = "string"
       THEN /\ urlToGenerativePart(1, input.chars)
            /\ ext' = [service |-> ext.service, pc |-> "awaitPart", input |-> input,
                       part |-> NoPart, result |-> NoResult]
       ELSE /\ ext' = [service |-> ext.service, pc |-> "awaitFile", input |-> input,
                       part |-> NoPart, result |-> NoResult]
            /\ UNCHANGED fetcherVars
    /\ ui' = Resume(u, ext')
    /\ UNCHANGED <<apiKey, runs>>

\* part_004, lines 42-51 and 53-59, then App.tsx, lines 295-301: a file of a
\* valid type, or a URL, is handed to handleProcess
ValidTypes == {"application/pdf", "image/png", "image/jpeg", "image/jpg"}
HandleProcess ==
    /\ ui.pc = "idle"
    /\ \E input \in {f \in Files : f.type \in ValidTypes}
                    \cup {StringInput(u) : u \in ClientUrls} :
          extractBillData(input, [UiIdle EXCEPT !.app = "handleProcess", !.pc = "calling",
                                                !.loading = TRUE])

\* App.tsx, lines 39-46: processDocument up to its first await
processDocument(input) ==
    [UiIdle EXCEPT !.app = "processDocument", !.pc = "delay", !.loading = TRUE,
                   !.step = "fetching_image",
                   !.message = Text("Sending document to server..."),
                   !.arg = input]

\* App.tsx, lines 20-24
HandleUrlSubmit ==
    /\ ui.pc = "idle"
    /\ \E u \in ClientUrls : ui' = processDocument(StringInput(u))
    /\ UNCHANGED <<fetcherVars, apiKey, ext, runs>>

\* App.tsx, lines 26-36: a file is chosen and the reader is started
HandleFileUpload ==
    /\ ui.pc = "idle"
    /\ \E f \in Files : ui' = [UiIdle EXCEPT !.app = "processDocument", !.pc = "reading",
                                             !.arg = f]
    /\ UNCHANGED <<fetcherVars, apiKey, ext, runs>>

\* App.tsx, lines 30-34: reader.onload
ReaderLoaded ==
    /\ ui.pc = "reading"
    /\ ui' = processDocument(StringInput(DataUrl(ui.arg)))
    /\ UNCHANGED <<fetcherVars, apiKey, ext, runs>>

\* App.tsx, line 48: setStatus, and line 50 up to the call
Analyzing(u) ==
    [u EXCEPT !.pc = "calling", !.loading = TRUE, !.step = "analyzing",
              !.message = Text("Extracting line items with Gemini 2.5...")]

\* App.tsx, lines 47-50: the delay is over
DelayElapsed ==
    /\ ui.pc = "delay"
    /\ extractBillData(ui.arg, Analyzing(ui))

\* another module calls the exported extractBillData
DirectCall ==
    /\ ui.pc = "idle"
    /\ \E input \in Inputs :
          extractBillData(input, [UiIdle EXCEPT !.app = "direct", !.pc = "calling"])

\* lines 191-198 once urlToGenerativePart has settled: the part is kept for
\* the model (line 236), the error is thrown again
OnPart ==
    /\ ext' = IF pc'[1] = "returned"
              THEN [ext EXCEPT !.pc = "awaitModel", !.part = outcome'[1]]
              ELSE IF pc'[1] = "thrown"
              THEN [ext EXCEPT !.pc = "thrown", !.result = outcome'[1]]
              ELSE ext
    /\ ui' = Resume(ui, ext')
    /\ UNCHANGED <<apiKey, runs>>

ClientFetchOutcomes == {r \in FetchOutcomes : r.kind = "reject" \/ Ok(r.status)}
ClientBlobOutcomes ==
    {b \in BlobOutcomes : b.kind = "blob" /\ b.size \in {50, MinBlobSize}
                          /\ b.type \in {"image/png", "application/octet-stream"}}

ClientFetchSettled ==
    /\ ext.pc = "awaitPart"
    /\ FetchSettled(1)
    /\ seen'[1] \in ClientFetchOutcomes
    /\ OnPart

\* the body of a data: URL fetched directly has the type the URL declares
ClientBlobSettled ==
    /\ ext.pc = "awaitPart"
    /\ BlobSettled(1)
    /\ seen'[1] \in ClientBlobOutcomes
    /\ IsDataUrl(url[1]) /\ Strategies[idx[1]] = "Direct" => seen'[1].type = DataUrlType(url[1])
    /\ OnPart

ClientEncodeSettled ==
    /\ ext.pc = "awaitPart"
    /\ EncodeSettled(1)
    /\ OnPart

\* fileToGenerativePart, lines 19-36, once the reader has ended, then lines
\* 194-198
fileToGenerativePart(file, e) ==
    IF e.kind = "readerError"
    THEN [ext EXCEPT !.pc = "thrown", !.result = ProgressEvent]
    ELSE [ext EXCEPT !.pc = "awaitModel",
                     !.part = [kind |-> "payload",
                               data |-> Split(ReadAsDataURL([type |-> ReaderType(file),
                                                             body |-> file.body]), ",")[2],
                               mimeType |-> file.type]]

FileSettled ==
    /\ ext.pc = "awaitFile"
    /\ \E e \in ReaderOutcomes : ext' = fileToGenerativePart(ext.input, e)
    /\ ui' = Resume(ui, ext')
    /\ UNCHANGED <<fetcherVars, apiKey, runs>>

\* lines 253-284 once generateContent has settled
OnModel(m) ==
    IF m.kind = "reject" THEN [ext EXCEPT !.pc = "thrown", !.result = Error("model error")]
    ELSE IF m.text.kind = "empty"
    THEN [ext EXCEPT !.pc = "thrown", !.result = Error("No data returned from Gemini.")]
    ELSE IF m.text.kind # "json"
    THEN [ext EXCEPT !.pc = "thrown", !.result = Error("Unexpected token")]
    ELSE [ext EXCEPT !.pc = "returned",
                     !.result = IF ext.service = "part_000"
                                THEN WithUsageIfPresent(m.text.value, m.usage)
                                ELSE WithUsage(m.text.value, m.usage)]

ModelSettled ==
    /\ ext.pc = "awaitModel"
    /\ \E m \in ModelOutcomes : ext' = OnModel(m)
    /\ ui' = Resume(ui, ext')
    /\ UNCHANGED <<fetcherVars, apiKey, runs>>

InitClient == InitCalls({1}) /\ InitApp(BOOLEAN) /\ InitNoServer /\ InitNoTrace

NextClient ==
    \/ HandleProcess /\ UNCHANGED <<serverVars, trace>>
    \/ HandleUrlSubmit /\ UNCHANGED <<serverVars, trace>>
    \/ HandleFileUpload /\ UNCHANGED <<serverVars, trace>>
    \/ ReaderLoaded /\ UNCHANGED <<serverVars, trace>>
    \/ DelayElapsed /\ UNCHANGED <<serverVars, trace>>
    \/ DirectCall /\ UNCHANGED <<serverVars, trace>>
    \/ ClientFetchSettled /\ UNCHANGED <<serverVars, trace>>
    \/ ClientBlobSettled /\ UNCHANGED <<serverVars, trace>>
    \/ ClientEncodeSettled /\ UNCHANGED <<serverVars, trace>>
    \/ FileSettled /\ UNCHANGED <<serverVars, trace>>
    \/ ModelSettled /\ UNCHANGED <<serverVars, trace>>

SpecClient == InitClient /\ [][NextClient]_vars

\* the document given to extractBillData is an embedded payload
Embedded(input) ==
    \/ input.kind = "File"
    \/ input.kind = "string" /\ IsDataUrl(input.chars)

\* the MIME type an embedded payload declares
DeclaredType(input) ==
    IF input.kind = "File" THEN input.type ELSE DataUrlType(input.chars)

(***************************************************************************)
(* C13.  When the document given to extractBillData is an embedded         *)
(* payload, a File or the data: URL that handleFileUpload reads from one,  *)
(* no strategy of the fetcher is attempted, and the part kept for the      *)
(* model carries the type that the payload declares.                       *)
(***************************************************************************)
C13_EmbeddedIsNotFetched ==
    ui.app \in {"handleProcess", "processDocument"} /\ Embedded(ext.input) =>
        /\ attempts[1] = <<>>
        /\ ext.part # NoPart => ext.part.mimeType = DeclaredType(ext.input)

\* the embedded payload declares no type of its own: file.type is empty, or
\* the reader wrote the type it uses for such a file into the data: URL
Undeclared(input) ==
    \/ input.kind = "File" /\ input.type = ""
    \/ input.kind = "string" /\ IsDataUrl(input.chars)
                             /\ DataUrlType(input.chars) = "application/octet-stream"

(***************************************************************************)
(* C14.  For an embedded payload whose declared MIME type is empty or      *)
(* cannot be determined, the part kept for the model carries a MIME type   *)
(* that is not empty.                                                      *)
(***************************************************************************)
C14_EmbeddedTypeIsNeverEmpty ==
    Undeclared(ext.input) /\ ext.part # NoPart => ext.part.mimeType # ""

\* extractBillData has thrown because the fetcher threw its aggregate error
\* or because the call of the model failed
FetchOrModelFailure ==
    /\ ext.pc = "thrown"
    /\ pc[1] = "thrown" \/ ext.part # NoPart

(***************************************************************************)
(* C17.  When the fetcher fails with the aggregate error, or the model     *)
(* call fails, inside extractBillData, the error that reaches the caller   *)
(* is that error, with the list of the failures of the strategies, and     *)
(* the message that the App keeps for display is its message.              *)
(***************************************************************************)
C17_FailureReachesTheDisplay ==
    FetchOrModelFailure =>
        /\ pc[1] = "thrown" => ext.result = outcome[1] /\ ext.result.details = errors[1]
        /\ ui.app \in {"handleProcess", "processDocument"} =>
              ui.message = MessageOf(ext.result)

\* the number of bill_items on all the pages
RECURSIVE ItemCount(_)
ItemCount(pages) ==
    IF pages = <<>> THEN 0
    ELSE Len(pages[1].bill_items) + ItemCount(Tail(pages))

(***************************************************************************)
(* C20.  In every response that extractBillData returns as successful,     *)
(* data.total_item_count is the number of bill_items on all the pages of   *)
(* data.pagewise_line_items.                                               *)
(***************************************************************************)
C20_TotalItemCount ==
    ext.pc = "returned" /\ ext.result.is_success =>
        ext.result.data.total_item_count = ItemCount(ext.result.data.pagewise_line_items)

(***************************************************************************)
(* The controls of the two App components and the activations of their     *)
(* handlers.  A control that the component renders disabled gives no       *)
(* event; React renders the state a handler has set before the next event  *)
(* is dispatched.  A handler runs up to its await and goes on when the     *)
(* promise settles: the FileReader of handleFileUpload, the delay of       *)
(* processDocument, and extractBillData, whose promise resolves with a     *)
(* response or rejects as the service module has it (lines 182-285).       *)
(* ui holds the state of the component, ui.pc and ui.arg those of the      *)
(* activation that set it last.                                            *)
(***************************************************************************)
MaxRuns == 2

Run(at, input) == [pc |-> at, arg |-> input]

\* how the promise of extractBillData settles
Extractions ==
    {[pc |-> "returned", result |-> WithUsage(d, u)] :
        d \in {x \in Documents : x.data = NoData}, u \in UsageMetadata}
    \cup {[pc |-> "thrown", result |-> e] :
            e \in {Error("No data returned from Gemini."), ProgressEvent}}

\* App.tsx, lines 20-24 and 188-193: the form is submitted; its button is
\* disabled while status.loading
SubmitUrl ==
    /\ ui.app = "processDocument"
    /\ ~ui.loading
    /\ Len(runs) < MaxRuns
    /\ \E u \in ClientUrls :
          /\ ui' = processDocument(StringInput(u))
          /\ runs' = Append(runs, Run("delay", StringInput(u)))
    /\ UNCHANGED <<fetcherVars, apiKey, ext, serverVars, trace>>

\* App.tsx, lines 26-36 and 195-210: a file is chosen with the button that is
\* disabled while status.loading, and the reader is started
ChooseFile ==
    /\ ui.app = "processDocument"
    /\ ~ui.loading
    /\ Len(runs) < MaxRuns
    /\ \E f \in Files : runs' = Append(runs, Run("reading", f))
    /\ UNCHANGED <<fetcherVars, apiKey, ext, ui, serverVars, trace>>

\* App.tsx, lines 30-34 and 39-46: reader.onload calls processDocument
FileLoaded ==
    \E a \in DOMAIN runs :
        /\ runs[a].pc = "reading"
        /\ LET input == StringInput(DataUrl(runs[a].arg)) IN
           /\ ui' = processDocument(input)
           /\ runs' = [runs EXCEPT ![a] = Run("delay", input)]
        /\ UNCHANGED <<fetcherVars, apiKey, ext, serverVars, trace>>

\* App.tsx, lines 47-50: the delay of an activation is over
DelayOver ==
    \E a \in DOMAIN runs :
        /\ runs[a].pc = "delay"
        /\ ui' = Analyzing(ui)
        /\ runs' = [runs EXCEPT ![a].pc = "calling"]
        /\ UNCHANGED <<fetcherVars, apiKey, ext, serverVars, trace>>

\* App.tsx, lines 295-298, behind the controls of part_004, lines 42-59, 73,
\* 80 and 148, all disabled while isProcessing
Process ==
    /\ ui.app = "handleProcess"
    /\ ~ui.loading
    /\ Len(runs) < MaxRuns
    /\ \E input \in {f \in Files : f.type \in ValidTypes}
                    \cup {StringInput(u) : u \in ClientUrls} :
          /\ ui' = [UiIdle EXCEPT !.app = "handleProcess", !.pc = "calling", !.loading = TRUE]
          /\ runs' = Append(runs, Run("calling", input))
    /\ UNCHANGED <<fetcherVars, apiKey, ext, serverVars, trace>>

\* App.tsx, lines 50-67 and 300-307: the promise of extractBillData settles
ExtractionSettled ==
    \E a \in DOMAIN runs :
        /\ runs[a].pc = "calling"
        /\ \E e \in Extractions : ui' = Resume(ui, e)
        /\ runs' = [runs EXCEPT ![a].pc = "done"]
        /\ UNCHANGED <<fetcherVars, apiKey, ext, serverVars, trace>>

\* App.tsx, line 366: "Home", rendered with the result, clears it
GoHome ==
    /\ ui.app = "handleProcess"
    /\ ui.result # NoResult
    /\ ui' = [ui EXCEPT !.result = NoResult]
    /\ UNCHANGED <<fetcherVars, apiKey, ext, runs, serverVars, trace>>

\* one of the two App components is mounted
InitUi ==
    /\ InitCalls({1})
    /\ apiKey = TRUE
    /\ ext = ExtIdle
    /\ ui \in {[UiIdle EXCEPT !.app = v] : v \in {"handleProcess", "processDocument"}}
    /\ runs = <<>>
    /\ InitNoServer
    /\ InitNoTrace

NextUi ==
    \/ SubmitUrl
    \/ ChooseFile
    \/ FileLoaded
    \/ DelayOver
    \/ Process
    \/ ExtractionSettled
    \/ GoHome

SpecUi == InitUi /\ [][NextUi]_vars

\* the timer of the delay fires and the promise of extractBillData settles
SpecUiFair ==
    /\ InitUi
    /\ [][NextUi]_vars
    /\ WF_vars(DelayOver)
    /\ WF_vars(ExtractionSettled)

\* activation a is past the start of processDocument and has not completed
InProgress(a) == a \in DOMAIN runs /\ runs[a].pc \in {"delay", "calling"}

(***************************************************************************)
(* C27.  In the App with processDocument at most one extraction is in      *)
(* progress at any time: however URL submissions, file selections, the     *)
(* completions of the file reads and of the extractions interleave, no     *)
(* call of processDocument starts while status.loading is true.            *)
(***************************************************************************)
C27_OneExtractionAtATime ==
    /\ [](ui.app = "processDocument" =>
              Cardinality({a \in DOMAIN runs : InProgress(a)}) <= 1)
    /\ [][ui.app = "processDocument" =>
              \A a \in 1..MaxRuns : (~InProgress(a) /\ InProgress(a)') => ~ui.loading]_vars

(***************************************************************************)
(* C28.  In the App with handleProcess isProcessing is true exactly while  *)
(* an extraction is in progress, and while it is true result and error are *)
(* both null; every completion of handleProcess, by a returned response or *)
(* by a thrown error, sets isProcessing to false and leaves exactly one of *)
(* result and error non-null.                                              *)
(***************************************************************************)
C28_ProcessingFlag ==
    /\ [](ui.app = "handleProcess" =>
              /\ ui.loading <=> (\E a \in DOMAIN runs : runs[a].pc = "calling")
              /\ ui.loading => (ui.result = NoResult /\ ui.message = NoText))
    /\ [][ui.app = "handleProcess" =>
              \A a \in 1..MaxRuns :
                  (a \in DOMAIN runs /\ runs[a].pc = "calling" /\ runs'[a].pc = "done")
                  => /\ ~ui'.loading
                     /\ (ui'.result # NoResult) # (ui'.message # NoText)]_vars

\* a second handleProcess has completed by the catch, after a first one
C28_Witness ==
    /\ ui.app = "handleProcess"
    /\ Len(runs) = 2
    /\ runs[1].pc = "done"
    /\ runs[2].pc = "done"
    /\ ~ui.loading
    /\ ui.result = NoResult
    /\ ui.message = Text("An unknown error occurred")

\* the steps of the status in the order of processDocument
StatusOrder ==
    {<<"idle", "fetching_image">>, <<"fetching_image", "analyzing">>,
     <<"analyzing", "complete">>, <<"analyzing", "error">>,
     <<"complete", "fetching_image">>, <<"error", "fetching_image">>}

(***************************************************************************)
(* C29.  In the App with processDocument the status goes from idle to      *)
(* fetching_image, to analyzing, and to complete or error: loading is true *)
(* exactly in the steps fetching_image and analyzing, in the step complete *)
(* the result is a response with is_success true, in the step error one    *)
(* with is_success false, and every processDocument that has started gets  *)
(* to complete or error when its extraction has settled.                   *)
(***************************************************************************)
C29_StatusSteps ==
    /\ [](ui.app = "processDocument" =>
              /\ ui.loading <=> ui.step \in {"fetching_image", "analyzing"}
              /\ ui.step = "complete" => (ui.result # NoResult /\ ui.result.is_success)
              /\ ui.step = "error" => (ui.result # NoResult /\ ~ui.result.is_success))
    /\ [][(ui.app = "processDocument" /\ ui'.step # ui.step)
              => <<ui.step, ui'.step>> \in StatusOrder]_vars
    /\ [][ui.app = "processDocument" =>
              \A a \in 1..MaxRuns :
                  (a \in DOMAIN runs /\ runs[a].pc = "calling" /\ runs'[a].pc = "done")
                  => ui'.step \in {"complete", "error"}]_vars
    /\ \A a \in 1..MaxRuns :
          (ui.app = "processDocument" /\ InProgress(a))
              ~> (a \in DOMAIN runs /\ runs[a].pc = "done")

(***************************************************************************)
(* The endpoint POST /extract-bill-data of server.js (lines 122-219, with  *)
(* urlToGenerativePart of lines 83-113), and of the server of part_001,    *)
(* lines 1-166, that reads the API key when it starts.  Express handles    *)
(* the requests one continuation at a time; several can be in progress.    *)
(***************************************************************************)
Requests == {1, 2}
ServerVariants == {"server.js", "part_001"}

\* req.body.document: absent, or a URL
ReqDocuments == {NoUrl} \cup ClientUrls
\* response.headers.get('content-type'), "" when there is none
ContentTypes == {"", "application/octet-stream", "image/png"}

NoBody == [none |-> TRUE]
NoResponse == [status |-> 0, body |-> NoBody]
ReqIdle ==
    [pc |-> "idle", document |-> NoUrl, part |-> NoPart, downloaded |-> FALSE,
     modelCalled |-> FALSE, response |-> NoResponse, sent |-> 0, seen |-> NotSeen]

\* error.message: what the error says and the message of its cause
Message(what, cause) == [what |-> what, cause |-> cause]

\* res.status(status).json(body)
Respond(q, status, body) ==
    [q EXCEPT !.pc = "answered", !.response = [status |-> status, body |-> body],
              !.sent = @ + 1]

\* server.js, lines 212-218
Caught(q, message) == Respond(q, 500, [is_success |-> FALSE, error |-> message])

\* part_001, lines 148-156
CaughtByEarlierServer(q, message) ==
    Respond(q, 500, [is_success |-> FALSE, token_usage |-> NoUsage, data |-> NoData,
                     error |-> message])

\* server.js, lines 93-102: the type of the downloaded document
serverMimeType(u, contentType) ==
    IF contentType \in {"", "application/octet-stream", "binary/octet-stream"}
    THEN LET lowerUrl == ToLowerCase(u) IN
         IF EndsWith(lowerUrl, <<".">> \o PNG) THEN "image/png"
         ELSE IF EndsWith(lowerUrl, <<".">> \o JPG) \/ EndsWith(lowerUrl, <<".">> \o JPEG)
              THEN "image/jpeg"
         ELSE IF EndsWith(lowerUrl, <<".">> \o WEBP) THEN "image/webp"
         ELSE "application/pdf"
    ELSE contentType

\* mutant: line 128 without its return: the 400 is sent and the handler goes on
ServerJsPostNoReturn(q, d) ==
    IF d = NoUrl
    THEN [Respond(q, 400, [error |-> Message("No document URL provided", "")])
             EXCEPT !.pc = "awaitFetch", !.downloaded = TRUE]
    ELSE IF ~apiKey
    THEN Respond([q EXCEPT !.document = d], 500,
                 [error |-> Message("Server misconfiguration: API_KEY missing", "")])
    ELSE [q EXCEPT !.document = d, !.pc = "awaitFetch", !.downloaded = TRUE]

\* server.js, lines 123-136 and 85-86: the handler up to its first await
ServerJsPost(q, d) ==
    IF d = NoUrl
    THEN Respond(q, 400, [error |-> Message("No document URL provided", "")])
    ELSE IF ~apiKey
    THEN Respond([q EXCEPT !.document = d], 500,
                 [error |-> Message("Server misconfiguration: API_KEY missing", "")])
    ELSE [q EXCEPT !.document = d, !.pc = "awaitFetch", !.downloaded = TRUE]

\* part_001, lines 83-99 and 65-66: the handler up to its first await
EarlierServerPost(q, d) ==
    IF d = NoUrl
    THEN Respond(q, 400, [is_success |-> FALSE,
                          error |-> Message("Missing 'document' URL in request body.", ""),
                          token_usage |-> NoUsage, data |-> NoData])
    ELSE [q EXCEPT !.document = d, !.pc = "awaitFetch", !.downloaded = TRUE]

Post(r) ==
    /\ server.up
    /\ requests[r].pc = "idle"
    /\ \E d \in ReqDocuments :
          requests' = [requests EXCEPT ![r] =
                          IF server.variant = "server.js" THEN ServerJsPost(@, d)
                          ELSE EarlierServerPost(@, d)]
    /\ UNCHANGED server

\* the errors of the download as the handler's catch sees them: server.js,
\* lines 87 and 109-112; part_001, lines 67 and 75-78
DownloadFailed(q, cause) ==
    IF server.variant = "server.js"
    THEN Caught(q, Message("Could not download document", cause))
    ELSE CaughtByEarlierServer(q, Message("Could not access the provided document URL.", ""))

\* the promise of fetch(url) settles
DownloadSettled(r) ==
    /\ requests[r].pc = "awaitFetch"
    /\ \E o \in FetchOutcomes :
          LET q == [requests[r] EXCEPT !.seen = o] IN
          requests' = [requests EXCEPT ![r] =
                          IF o.kind = "reject" THEN DownloadFailed(q, "fetch failed")
                          ELSE IF ~Ok(o.status) THEN DownloadFailed(q, "Failed to fetch URL")
                          ELSE [q EXCEPT !.pc = "awaitBody"]]
    /\ UNCHANGED server

\* how the promise of response.arrayBuffer() settles, with the content type
\* of the response
BodyOutcomes ==
    {[kind |-> "bodyReject", status |-> 200, type |-> "", size |-> 0]}
    \cup [kind : {"body"}, status : {200}, type : ContentTypes, size : {MinBlobSize}]

\* the promise of response.arrayBuffer() settles: server.js, lines 89-108,
\* then line 139; part_001, lines 68-74, then line 115
BodySettled(r) ==
    /\ requests[r].pc = "awaitBody"
    /\ \E o \in BodyOutcomes :
          LET q == [requests[r] EXCEPT !.seen = o] IN
          requests' = [requests EXCEPT ![r] =
              IF o.kind = "bodyReject" THEN DownloadFailed(q, "body stream")
              ELSE [q EXCEPT !.pc = "awaitModel", !.modelCalled = TRUE,
                             !.part = [kind |-> "payload", data |-> Base64(q.document),
                                       mimeType |->
                                           IF server.variant = "server.js"
                                           THEN serverMimeType(q.document, o.type)
                                           ELSE IF o.type = "" THEN "image/png"
                                           ELSE o.type]]]
    /\ UNCHANGED server

\* the answers of the model that the server is given
ServerModelOutcomes ==
    {m \in ModelOutcomes :
        m.text.kind = "json" =>
            /\ Len(m.text.value.data.pagewise_line_items) <= 1
            /\ m.text.value.data.total_item_count <= 1}

\* server.js, lines 190-210, once generateContent has settled
ServerJsOnModel(q, m) ==
    IF m.kind = "reject" THEN Caught(q, Message("model error", ""))
    ELSE IF m.text.kind # "json" THEN Caught(q, Message("Unexpected token", ""))
    ELSE Respond(q, 200, [is_success |-> m.text.value.is_success,
                          token_usage |-> TokenUsage(m.usage),
                          data |-> m.text.value.data])

\* part_001, lines 129-146, once generateContent has settled
EarlierServerOnModel(q, m) ==
    IF m.kind = "reject" THEN CaughtByEarlierServer(q, Message("model error", ""))
    ELSE IF m.text.kind = "empty"
    THEN CaughtByEarlierServer(q, Message("No response from AI model.", ""))
    ELSE IF m.text.kind # "json"
    THEN CaughtByEarlierServer(q, Message("Unexpected token", ""))
    ELSE Respond(q, 200, [is_success |-> TRUE,
                          token_usage |-> TokenUsage(m.usage),
                          data |-> m.text.value.data])

\* the promise of generateContent settles; without a key the call is refused
ServerModelSettled(r) ==
    /\ requests[r].pc = "awaitModel"
    /\ \E m \in ServerModelOutcomes :
          /\ ~apiKey => m.kind = "reject"
          /\ LET q == [requests[r] EXCEPT !.seen = m] IN
             requests' = [requests EXCEPT ![r] =
                             IF server.variant = "server.js" THEN ServerJsOnModel(q, m)
                             ELSE EarlierServerOnModel(q, m)]
    /\ UNCHANGED server

\* the process has started: part_001 constructs the client with the key it
\* has read, set or not (lines 22-27), and whether the constructor accepts
\* an undefined key is the library's choice
InitServer ==
    /\ InitCalls({1})
    /\ InitApp(BOOLEAN)
    /\ server \in [variant : ServerVariants, up : BOOLEAN]
    /\ ~server.up => server.variant = "part_001" /\ ~apiKey
    /\ requests = [r \in Requests |-> ReqIdle]
    /\ InitNoTrace

NextServer ==
    \/ \E r \in Requests : Post(r) /\ UNCHANGED <<fetcherVars, appVars, trace>>
    \/ \E r \in Requests : DownloadSettled(r) /\ UNCHANGED <<fetcherVars, appVars, trace>>
    \/ \E r \in Requests : BodySettled(r) /\ UNCHANGED <<fetcherVars, appVars, trace>>
    \/ \E r \in Requests : ServerModelSettled(r) /\ UNCHANGED <<fetcherVars, appVars, trace>>

SpecServer == InitServer /\ [][NextServer]_vars

\* request r has been answered
Answered(r) == requests[r].pc = "answered"

(***************************************************************************)
(* The two MIME resolutions side by side: getMimeType of the browser       *)
(* (geminiService.ts, lines 5-16) and the fallback of the server           *)
(* (server.js, lines 93-102) are given the same URL and the same declared  *)
(* content type.                                                           *)
(***************************************************************************)
\* the declared content types: "" when the response has none
DeclaredTypes ==
    BlobTypes \cup {"binary/octet-stream", "application/pdf", "image/jpeg", NamedType}

\* blobToBase64 (lines 44-53) on a body of the declared type
BrowserResolves ==
    /\ pc[1] = "idle"
    /\ \E u \in Urls : \E t \in DeclaredTypes :
          /\ url' = [url EXCEPT ![1] = u]
          /\ blob' = [blob EXCEPT ![1] = [type |-> t, size |-> MinBlobSize, body |-> "Direct"]]
          /\ outcome' = [outcome EXCEPT ![1] = blobToBase64(u, blob'[1])]
    /\ pc' = [pc EXCEPT ![1] = "returned"]
    /\ UNCHANGED <<image, idx, errors, attempts, inflight, seen, appVars, serverVars, trace>>

\* server.js, lines 89-108, on the same URL and the same declared type
ServerResolves ==
    /\ pc[1] = "returned"
    /\ requests[1].pc = "idle"
    /\ requests' = [requests EXCEPT ![1] =
                        [@ EXCEPT !.pc = "awaitModel", !.document = url[1],
                                  !.part = [kind |-> "payload", data |-> Base64(url[1]),
                                            mimeType |-> serverMimeType(url[1], blob[1].type)]]]
    /\ UNCHANGED <<server, fetcherVars, appVars, trace>>

InitMime ==
    /\ InitCalls({1})
    /\ InitApp({TRUE})
    /\ server = [variant |-> "server.js", up |-> TRUE]
    /\ requests = [r \in {1} |-> ReqIdle]
    /\ InitNoTrace

NextMime ==
    \/ BrowserResolves
    \/ ServerResolves

SpecMime == InitMime /\ [][NextMime]_vars

(***************************************************************************)
(* C25.  The MIME resolution of the browser and the fallback of the        *)
(* server in server.js agree: for every URL, with or without a query       *)
(* string, and every declared content type, both resolve the same type.    *)
(***************************************************************************)
C25_BrowserAndServerAgree ==
    requests[1].part # NoPart => requests[1].part.mimeType = outcome[1].mimeType

(***************************************************************************)
(* The token counts.  extractBillData is called with a file, in either     *)
(* text of the service module, and a request is posted to the endpoint,    *)
(* and the answers of the model are written down.                          *)
(***************************************************************************)
\* the answers of the model with no line items, among them one whose usage
\* metadata lacks a count
UsageModelOutcomes ==
    {m \in ModelOutcomes : m.text.kind = "json" => m.text.value.data = NoData}
    \cup [kind : {"response"},
          text : {[kind |-> "json", value |-> d] : d \in {x \in Documents : x.data = NoData}},
          usage : {PartialUsage}]

UsageCall ==
    /\ ui.pc = "idle"
    /\ \E f \in Files :
          extractBillData(f, [UiIdle EXCEPT !.app = "direct", !.pc = "calling"])
    /\ UNCHANGED <<serverVars, trace>>

UsageFileSettled == FileSettled /\ UNCHANGED <<serverVars, trace>>

UsageModelSettled ==
    /\ ext.pc = "awaitModel"
    /\ \E m \in UsageModelOutcomes :
          /\ ext' = OnModel(m)
          /\ trace' = [trace EXCEPT ![1] = Append(@, m)]
    /\ ui' = Resume(ui, ext')
    /\ UNCHANGED <<fetcherVars, apiKey, runs, serverVars>>

UsageServerModelSettled(r) ==
    /\ requests[r].pc = "awaitModel"
    /\ \E m \in UsageModelOutcomes :
          LET q == [requests[r] EXCEPT !.seen = m] IN
          requests' = [requests EXCEPT ![r] =
                          IF server.variant = "server.js" THEN ServerJsOnModel(q, m)
                          ELSE EarlierServerOnModel(q, m)]
    /\ UNCHANGED <<server, fetcherVars, appVars, trace>>

InitUsage ==
    /\ InitCalls({1})
    /\ apiKey = TRUE
    /\ ext \in {[ExtIdle EXCEPT !.service = v] : v \in ServiceVariants}
    /\ ui = UiIdle
    /\ runs = <<>>
    /\ server \in [variant : ServerVariants, up : {TRUE}]
    /\ requests = [r \in {1} |-> ReqIdle]
    /\ trace = [i \in {1} |-> <<>>]

NextUsage ==
    \/ UsageCall
    \/ UsageFileSettled
    \/ UsageModelSettled
    \/ \E r \in DOMAIN requests : Post(r) /\ UNCHANGED <<fetcherVars, appVars, trace>>
    \/ \E r \in DOMAIN requests : DownloadSettled(r) /\ UNCHANGED <<fetcherVars, appVars, trace>>
    \/ \E r \in DOMAIN requests : BodySettled(r) /\ UNCHANGED <<fetcherVars, appVars, trace>>
    \/ \E r \in DOMAIN requests : UsageServerModelSettled(r)

SpecUsage == InitUsage /\ [][NextUsage]_vars

\* the count of the usage metadata, 0 when the metadata or the count is absent
CountOf(usage, count) ==
    IF usage.present /\ count \in usage.counts THEN usage[count] ELSE 0

\* the token_usage that stands for the usage metadata
UsageOf(usage) ==
    [total_tokens |-> CountOf(usage, "totalTokenCount"),
     input_tokens |-> CountOf(usage, "promptTokenCount"),
     output_tokens |-> CountOf(usage, "candidatesTokenCount")]

(***************************************************************************)
(* C22.  Every result that extractBillData returns and every 200 response  *)
(* of POST /extract-bill-data carries a token_usage with the three counts  *)
(* of the usage metadata of the model's answer, 0 for a count that is      *)
(* missing, whatever token_usage the model wrote in its JSON text, and     *)
(* three zeros when the answer has no usage metadata.                      *)
(***************************************************************************)
C22_TokenUsageFromMetadata ==
    /\ ext.pc = "returned" /\ ext.result.is_success =>
           /\ DOMAIN ext.result.token_usage =
                  {"total_tokens", "input_tokens", "output_tokens"}
           /\ ext.result.token_usage = UsageOf(Last(trace[1]).usage)
    /\ \A r \in DOMAIN requests :
           Answered(r) /\ requests[r].response.status = 200 =>
               /\ DOMAIN requests[r].response.body.token_usage =
                      {"total_tokens", "input_tokens", "output_tokens"}
               /\ requests[r].response.body.token_usage = UsageOf(requests[r].seen.usage)

(***************************************************************************)
(* The endpoint of server.js with every promise it awaits settling: fetch  *)
(* and arrayBuffer of the download and generateContent of the model all    *)
(* complete, and Node runs the continuation.  Nothing makes a client post. *)
(***************************************************************************)
ServedPost ==
    \E r \in Requests : Post(r) /\ UNCHANGED <<fetcherVars, appVars, trace>>
ServedDownloadSettled ==
    \E r \in Requests : DownloadSettled(r) /\ UNCHANGED <<fetcherVars, appVars, trace>>
ServedBodySettled ==
    \E r \in Requests : BodySettled(r) /\ UNCHANGED <<fetcherVars, appVars, trace>>
ServedModelSettled ==
    \E r \in Requests :
        /\ ServerModelSettled(r)
        /\ requests'[r].seen \in UsageModelOutcomes
        /\ UNCHANGED <<fetcherVars, appVars, trace>>

InitServed ==
    /\ InitCalls({1})
    /\ InitApp(BOOLEAN)
    /\ server = [variant |-> "server.js", up |-> TRUE]
    /\ requests = [r \in Requests |-> ReqIdle]
    /\ InitNoTrace

NextServed ==
    \/ ServedPost
    \/ ServedDownloadSettled
    \/ ServedBodySettled
    \/ ServedModelSettled

SpecServed ==
    /\ InitServed
    /\ [][NextServed]_vars
    /\ WF_vars(ServedDownloadSettled)
    /\ WF_vars(ServedBodySettled)
    /\ WF_vars(ServedModelSettled)

\* the settled promise o made the handler throw
Thrown(o) ==
    \/ o.kind \in {"reject", "bodyReject"}
    \/ o.kind = "response" /\ "text" \notin DOMAIN o /\ ~Ok(o.status)
    \/ o.kind = "response" /\ "text" \in DOMAIN o /\ o.text.kind # "json"

\* the status that the handling q of a request is to be answered with
StatusFor(q) ==
    IF q.document = NoUrl THEN 400
    ELSE IF ~apiKey THEN 500
    ELSE IF Thrown(q.seen) THEN 500
    ELSE 200

(***************************************************************************)
(* C26.  Every request of POST /extract-bill-data of server.js gets        *)
(* exactly one response on every path: 400 when the document is missing,   *)
(* 500 when the API key is missing or an error is thrown, 200 with the     *)
(* parsed result otherwise.  No response is sent twice, nothing happens    *)
(* to a request after its response, and a request whose download and       *)
(* model call complete is answered.                                        *)
(***************************************************************************)
C26_ExactlyOneResponse ==
    /\ [](\A r \in Requests :
            /\ requests[r].sent <= 1
            /\ Answered(r) <=> requests[r].sent = 1
            /\ Answered(r) =>
                  /\ requests[r].response.status = StatusFor(requests[r])
                  /\ requests[r].response.status = 200 =>
                         requests[r].response.body.data = requests[r].seen.text.value.data)
    /\ [][\A r \in Requests : Answered(r) => requests'[r] = requests[r]]_vars
    /\ \A r \in Requests : requests[r].pc # "idle" ~> Answered(r)

\* one request was answered 200 and the other 500 after its download failed
C26_Witness ==
    /\ Answered(1) /\ requests[1].response.status = 200 /\ requests[1].sent = 1
    /\ Answered(2) /\ requests[2].response.status = 500 /\ requests[2].sent = 1
    /\ requests[2].seen.kind = "bodyReject"

(***************************************************************************)
(* The same work asked for twice: the fetcher is called twice, or the      *)
(* endpoint of server.js is requested twice, in any order and with any     *)
(* overlap, and what each invocation was answered is written down.         *)
(***************************************************************************)
AgainIds == {1, 2}

AgainFetchOutcomes == {r \in FetchOutcomes : r.kind = "reject" \/ Ok(r.status)}
AgainBlobOutcomes ==
    {b \in BlobOutcomes : b.kind = "blob" /\ b.size = MinBlobSize
                          /\ b.type \in {"text/html", "application/octet-stream"}}
AgainReaderOutcomes == {e \in ReaderOutcomes : e.kind = "load"}

Written(i) == [trace EXCEPT ![i] = Append(@, seen'[i])]
WrittenByServer(i) == [trace EXCEPT ![i] = Append(@, requests'[i].seen)]

InitAgain ==
    /\ InitApp({TRUE})
    /\ trace = [i \in AgainIds |-> <<>>]
    /\ \/ InitCalls(AgainIds) /\ InitNoServer
       \/ /\ InitCalls({})
          /\ server = [variant |-> "server.js", up |-> TRUE]
          /\ requests = [r \in AgainIds |-> ReqIdle]

NextAgain ==
    \/ \E k \in Calls : Call(k) /\ url'[k] \in ClientUrls
                                /\ UNCHANGED <<appVars, serverVars, trace>>
    \/ \E k \in Calls : FetchSettled(k) /\ seen'[k] \in AgainFetchOutcomes
                                        /\ trace' = Written(k)
                                        /\ UNCHANGED <<appVars, serverVars>>
    \/ \E k \in Calls : BlobSettled(k) /\ seen'[k] \in AgainBlobOutcomes
                                       /\ trace' = Written(k)
                                       /\ UNCHANGED <<appVars, serverVars>>
    \/ \E k \in Calls : EncodeSettled(k) /\ seen'[k] \in AgainReaderOutcomes
                                         /\ trace' = Written(k)
                                         /\ UNCHANGED <<appVars, serverVars>>
    \/ \E r \in DOMAIN requests : Post(r) /\ UNCHANGED <<fetcherVars, appVars, trace>>
    \/ \E r \in DOMAIN requests : DownloadSettled(r) /\ trace' = WrittenByServer(r)
                                                     /\ UNCHANGED <<fetcherVars, appVars>>
    \/ \E r \in DOMAIN requests : BodySettled(r) /\ trace' = WrittenByServer(r)
                                                 /\ UNCHANGED <<fetcherVars, appVars>>
    \/ \E r \in DOMAIN requests : ServerModelSettled(r) /\ trace' = WrittenByServer(r)
                                                        /\ UNCHANGED <<fetcherVars, appVars>>

SpecAgain == InitAgain /\ [][NextAgain]_vars

\* i and j are calls of the fetcher for the same URL that were given the
\* same responses
SameCall(i, j) ==
    /\ i \in Calls /\ j \in Calls
    /\ pc[i] # "idle" /\ pc[j] # "idle"
    /\ url[i] = url[j]
    /\ trace[i] = trace[j]

\* i and j are requests for the same document that were given the same
\* responses
SameRequest(i, j) ==
    /\ i \in DOMAIN requests /\ j \in DOMAIN requests
    /\ requests[i].pc # "idle" /\ requests[j].pc # "idle"
    /\ requests[i].document = requests[j].document
    /\ trace[i] = trace[j]

(***************************************************************************)
(* C19.  The fetcher and the endpoint keep nothing between invocations:    *)
(* an invocation never changes the URL it was given, and two invocations   *)
(* for the same document that are given the same responses make the same   *)
(* attempts and end with the same result, whatever else was processed      *)
(* before or meanwhile.                                                    *)
(***************************************************************************)
C19_SameDocumentSameResult ==
    /\ [](\A i \in AgainIds : \A j \in AgainIds :
            /\ SameCall(i, j) =>
                  /\ attempts[i] = attempts[j]
                  /\ errors[i] = errors[j]
                  /\ pc[i] = pc[j]
                  /\ outcome[i] = outcome[j]
            /\ SameRequest(i, j) =>
                  /\ requests[i].pc = requests[j].pc
                  /\ requests[i].part = requests[j].part
                  /\ requests[i].response = requests[j].response)
    /\ [][\A i \in AgainIds :
            /\ i \in Calls /\ pc[i] # "idle" => url'[i] = url[i]
            /\ i \in DOMAIN requests /\ requests[i].pc # "idle" =>
                  requests'[i].document = requests[i].document]_vars

\* the second call has failed over to a proxy and returned for the URL and
\* the responses for which the first call is one step from returning
C19_Witness ==
    /\ Calls = AgainIds
    /\ url[1] = url[2]
    /\ pc[2] = "returned"
    /\ Len(attempts[2]) >= 2
    /\ pc[1] = "awaitEncode"
    /\ attempts[1] = attempts[2]
    /\ trace[2] = Append(trace[1], seen[2])

(***************************************************************************)
(* C15.  Every failure response of POST /extract-bill-data of server.js    *)
(* is a JSON body with is_success false and an error field, and every      *)
(* other response has the shape of the extraction response.                *)
(***************************************************************************)
C15_FailuresCarryTheEnvelope ==
    server.variant = "server.js" =>
        \A r \in Requests :
            Answered(r) =>
                LET b == requests[r].response.body IN
                IF requests[r].response.status = 200
                THEN DOMAIN b = {"is_success", "token_usage", "data"}
                ELSE /\ "is_success" \in DOMAIN b
                     /\ b.is_success = FALSE
                     /\ "error" \in DOMAIN b

(***************************************************************************)
(* C16.  When the API key is absent from the environment, a request that   *)
(* carries a document is answered with the configuration error, the        *)
(* process that answered is still serving, and neither a download of the   *)
(* document nor a call of the model has been started for any request.      *)
(***************************************************************************)
C16_NoKeyNoWork ==
    ~apiKey =>
        \A r \in Requests :
            /\ ~requests[r].downloaded
            /\ ~requests[r].modelCalled
            /\ Answered(r) => server.up
            /\ Answered(r) /\ requests[r].document # NoUrl =>
                  /\ requests[r].response.status = 500
                  /\ requests[r].response.body.error.what =
                         "Server misconfiguration: API_KEY missing"

(***************************************************************************)
(* extractBillData(imageUrl, apiKey) of the service module that returns an *)
(* ApiResponse (src/unnamed/part_000, lines 340-459).  The whole body is   *)
(* one try whose catch returns the failure; ext holds the call, apiKey the *)
(* key it is given, trace[1] how the promises it awaited have settled.     *)
(* With responseSchema the text of an answer is the JSON of an object of   *)
(* billSchema, whole or cut short, or there is none.                       *)
(***************************************************************************)
Null == [kind |-> "null"]
Undefined == [kind |-> "undefined"]

\* a data: URL with no media type, and a string with no comma after data:
BareDataUrl == DataPrefix \o Base64Marker \o Base64Chars
NoCommaUrl  == DataPrefix \o <<"x">>
ImageUrls ==
    ClientUrls \cup {DataUrl(f) : f \in Files} \cup {BareDataUrl, NoCommaUrl}

\* parts[0].match(/:(.*?);/)?.[1] || "image/png" (line 358)
MatchType(p) ==
    LET colons == {i \in 1..Len(p) : p[i] = ":" /\ \E j \in (i + 1)..Len(p) : p[j] = ";"} IN
    IF colons = {} THEN TypeChars("image/png")
    ELSE LET i == CHOOSE c \in colons : \A d \in colons : c <= d
             j == CHOOSE c \in (i + 1)..Len(p) :
                      p[c] = ";" /\ \A d \in (i + 1)..(c - 1) : p[d] # ";"
         IN IF j = i + 1 THEN TypeChars("image/png") ELSE SubSeq(p, i + 1, j - 1)

\* the second of the parts of a split, undefined when there is none
SecondPart(parts) == IF Len(parts) >= 2 THEN parts[2] ELSE Undefined

\* blob.type as characters
CharsOf(t) == IF t = "" THEN <<>> ELSE TypeChars(t)

\* lines 447-459: blobToBase64, the part after the comma of reader.result
ApiBlobToBase64(t) == SecondPart(Split(DataUrl([type |-> t]), ","))

\* how the promises of fetch (line 362), of blob() (line 366), of
\* blobToBase64 (line 368) and of generateContent (line 397) settle
ApiFetchOutcomes == [kind : {"reject"}, ok : {FALSE}] \cup [kind : {"response"}, ok : BOOLEAN]
ApiBlobOutcomes ==
    [kind : {"bodyReject"}, type : {""}]
    \cup [kind : {"blob"}, type : {"image/png", "application/octet-stream", ""}]
ApiEncodeOutcomes == {"loaded", "readerError"}
ApiModelOutcomes ==
    [kind : {"reject"}, message : {"model error", ""}, text : {[kind |-> "empty"]},
     usage : {CHOOSE m \in UsageMetadata : ~m.present}]
    \cup [kind : {"response"}, message : {""},
          text : {[kind |-> "empty"], [kind |-> "garbage"]}
                 \cup {[kind |-> "json", value |-> d.data] : d \in Documents},
          usage : UsageMetadata \cup {PartialUsage}]

CorsMessage ==
    "Could not fetch the image from the URL due to browser CORS restrictions. Please try uploading the file directly or using a CORS-enabled URL."

\* mutant: the catch throws the error again
ApiCaughtRethrown(x, message) ==
    [x EXCEPT !.pc = "thrown", !.result = Error(message)]

\* lines 436-443: the catch of the function, given the message of the error
ApiCaught(x, message) ==
    [x EXCEPT !.pc = "returned",
              !.result = [kind |-> "response", is_success |-> FALSE, token_usage |-> NoUsage,
                          data |-> Null,
                          error |-> IF message # "" THEN message
                                    ELSE "An unexpected error occurred"]]

ApiIdle ==
    [service |-> "ApiResponse", pc |-> "idle", input |-> NoInput, mimeType |-> <<>>,
     base64Data |-> <<>>, result |-> NoResult]

\* lines 340-362: the call, up to its first await
ApiCall ==
    /\ ext.pc = "idle"
    /\ \E u \in ImageUrls :
          LET x == [ext EXCEPT !.input = StringInput(u), !.mimeType = TypeChars("image/png")] IN
          ext' = IF ~apiKey
                 THEN ApiCaught(x, "API Key is missing. Please check your environment configuration.")
                 ELSE IF StartsWith(u, DataPrefix)
                 THEN LET parts == Split(u, ",") IN
                      [x EXCEPT !.pc = "awaitModel", !.mimeType = MatchType(parts[1]),
                                !.base64Data = SecondPart(parts)]
                 ELSE [x EXCEPT !.pc = "awaitFetch"]
    /\ UNCHANGED <<fetcherVars, apiKey, ui, runs, serverVars, trace>>

\* lines 362-365 and 369-374
ApiFetchSettled ==
    /\ ext.pc = "awaitFetch"
    /\ \E o \in ApiFetchOutcomes :
          /\ ext' = IF o.kind = "response" /\ o.ok THEN [ext EXCEPT !.pc = "awaitBlob"]
                    ELSE ApiCaught(ext, CorsMessage)
          /\ trace' = [trace EXCEPT ![1] = Append(@, o)]
    /\ UNCHANGED <<fetcherVars, apiKey, ui, runs, serverVars>>

\* lines 366-368 and 369-374
ApiBlobSettled ==
    /\ ext.pc = "awaitBlob"
    /\ \E o \in ApiBlobOutcomes :
          /\ ext' = IF o.kind = "blob"
                    THEN [ext EXCEPT !.pc = "awaitEncode", !.mimeType = CharsOf(o.type),
                                     !.input = [kind |-> "blob", type |-> o.type]]
                    ELSE ApiCaught(ext, CorsMessage)
          /\ trace' = [trace EXCEPT ![1] = Append(@, o)]
    /\ UNCHANGED <<fetcherVars, apiKey, ui, runs, serverVars>>

\* lines 368-374 and 447-459
ApiEncodeSettled ==
    /\ ext.pc = "awaitEncode"
    /\ \E o \in ApiEncodeOutcomes :
          /\ ext' = IF o = "loaded"
                    THEN [ext EXCEPT !.pc = "awaitModel",
                                     !.base64Data = ApiBlobToBase64(ext.input.type)]
                    ELSE ApiCaught(ext, CorsMessage)
          /\ trace' = [trace EXCEPT ![1] = Append(@, [kind |-> o])]
    /\ UNCHANGED <<fetcherVars, apiKey, ui, runs, serverVars>>

\* lines 397-435 once generateContent has settled
ApiOnModel(m) ==
    IF m.kind = "reject" THEN ApiCaught(ext, m.message)
    ELSE IF m.text.kind = "empty" THEN ApiCaught(ext, "Empty response from AI model.")
    ELSE IF m.text.kind # "json" THEN ApiCaught(ext, "Unexpected end of JSON input")
    ELSE [ext EXCEPT !.pc = "returned",
                     !.result = [kind |-> "response", is_success |-> TRUE,
                                 token_usage |->
                                     [total_tokens |-> IF m.usage.present
                                                       THEN OrZero(m.usage, "totalTokenCount") ELSE 0,
                                      input_tokens |-> IF m.usage.present
                                                       THEN OrZero(m.usage, "promptTokenCount") ELSE 0,
                                      output_tokens |-> IF m.usage.present
                                                        THEN OrZero(m.usage, "candidatesTokenCount")
                                                        ELSE 0],
                                 data |-> m.text.value]]

ApiModelSettled ==
    /\ ext.pc = "awaitModel"
    /\ \E m \in ApiModelOutcomes :
          /\ ext' = ApiOnModel(m)
          /\ trace' = [trace EXCEPT ![1] = Append(@, m)]
    /\ UNCHANGED <<fetcherVars, apiKey, ui, runs, serverVars>>

InitApi ==
    /\ InitCalls({1})
    /\ apiKey \in BOOLEAN
    /\ ext = ApiIdle
    /\ ui = UiIdle
    /\ runs = <<>>
    /\ InitNoServer
    /\ trace = [k \in {1} |-> <<>>]

NextApi ==
    \/ ApiCall
    \/ ApiFetchSettled
    \/ ApiBlobSettled
    \/ ApiEncodeSettled
    \/ ApiModelSettled

SpecApi == InitApi /\ [][NextApi]_vars

\* an awaited promise that settled as one of the failures of the call
ApiFailure(o) ==
    \/ o.kind \in {"reject", "bodyReject", "readerError"}
    \/ o.kind = "response" /\ "ok" \in DOMAIN o /\ ~o.ok
    \/ o.kind = "response" /\ "text" \in DOMAIN o /\ o.text.kind # "json"

====
